---- MODULE Spec2Model ----
(***************************************************************************)
(* Credential and session lifecycle of lawcase-bench (apps/api):           *)
(* AuthService (login / refreshToken / logout / 2FA), the auth middleware, *)
(* and the Prisma-backed models they call.  Every `await` on the store is  *)
(* a step of its own, so that calls of different requests interleave the   *)
(* way they do on the Node event loop.                                     *)
(***************************************************************************)
EXTENDS Integers, FiniteSets, Sequences, TLC

(* ------------------------------ bounds -------------------------------- *)

\* The clock runs from 0 to MaxTime (one tick = one JWT second).
MaxTime == 4

\* Number of refresh tokens TokenUtils.generateSecureToken() may hand out.
MaxTokens == 3

\* The last time at which an access token is issued.
MaxIssue == 1

\* Access-token lifetime in ticks (jwt.ts: 15 * 60 seconds, scaled).
AccessTTL == 2

\* Refresh-token lifetime in ticks (auth.service.ts: 7 days, scaled).
RefreshTTL == 3

(* ------------------------------ universe ------------------------------ *)

Procs == {"p1", "p2"}

UserIds == {"u1", "u2"}

\* login looks accounts up by email; "nobody" is registered to no account.
Emails == UserIds \cup {"nobody"}

Passwords == {"pw1", "pw2"}

Secrets == {"s1", "s2"}

BackupCodeIds == {"b1"}

NoSecret == "null"

\* Roles of the role table; "none" stands for an account without a user_Role row.
RoleNames == {"User", "Admin"}

NoRole == "none"

NoToken == 0

TokenIds == 1..MaxTokens

Times == 0..MaxTime

(* ------------------------ pure helpers (utils) ------------------------ *)

\* PasswordUtils.hashPassword: one-way; the model keeps the preimage tagged.
hashPassword(pw) == <<"bcrypt", pw>>

\* Mutant: every password matches.
comparePasswordAlways(pw, hashed) == TRUE

\* PasswordUtils.comparePassword
comparePassword(pw, hashed) == hashed = hashPassword(pw)

\* The TOTP time step the clock is in (speakeasy: 30 s steps; here 1 tick).
totpStep(t) == t

\* The 6-digit code an authenticator holding `secret` shows at time t.
totpCode(secret, t) == [kind |-> "totp", val |-> secret, step |-> totpStep(t)]

\* The time steps whose codes a client submits: the first and the last, so
\* that a code is inside the window at some times and outside it at others.
CodeSteps == {0, MaxTime}

\* What a client may type into twoFactorCode: a TOTP code, a backup code, nothing.
Codes ==
    [kind : {"totp"}, val : Secrets, step : CodeSteps]
    \cup [kind : {"backup"}, val : BackupCodeIds, step : {0}]

NoCode == [kind |-> "none", val |-> "none", step |-> 0]

\* Mutant: the code is accepted whatever secret it was derived from.
verifyTokenAnySecret(secret, code, t) ==
    /\ code.kind = "totp"
    /\ code.step >= totpStep(t) - 2
    /\ code.step <= totpStep(t) + 2

\* TwoFactorUtils.verifyToken: speakeasy.totp.verify with window: 2.
verifyToken(secret, code, t) ==
    /\ code.kind = "totp"
    /\ code.val = secret
    /\ code.step >= totpStep(t) - 2
    /\ code.step <= totpStep(t) + 2

\* JwtUtils.generateAccessToken: the signed payload is the token.
generateAccessToken(uid, t) == [sub |-> uid, exp |-> t + AccessTTL, type |-> "access"]

NoAccess == [sub |-> "none", exp |-> 0, type |-> "none"]

\* jsonwebtoken's expiry check inside JwtUtils.verifyAccessToken.
accessExpired(tok, t) == t >= tok.exp

(* --------------------------- store (models) --------------------------- *)

\* RefreshTokenModel.findByToken(token) !== null
hasRefreshToken(rts, t) == t \in DOMAIN rts

\* Mutant: a new session ends the account's other sessions.
createRefreshTokenSingleSession(rts, t, uid, exp) ==
    [x \in DOMAIN rts \cup {t} |->
        IF x = t THEN [userId |-> uid, expiresAt |-> exp, isRevoked |-> FALSE]
        ELSE IF rts[x].userId = uid THEN [rts[x] EXCEPT !.isRevoked = TRUE]
        ELSE rts[x]]

\* RefreshTokenModel.create
createRefreshToken(rts, t, uid, exp) ==
    [x \in DOMAIN rts \cup {t} |->
        IF x = t THEN [userId |-> uid, expiresAt |-> exp, isRevoked |-> FALSE]
        ELSE rts[x]]

\* Mutant: the update is lost.
revokeTokenLost(rts, t) == rts

\* RefreshTokenModel.revokeToken (the row exists)
revokeToken(rts, t) == [rts EXCEPT ![t].isRevoked = TRUE]

\* RefreshTokenModel.deleteExpiredTokens
deleteExpiredRefreshTokens(rts, t) ==
    [x \in {y \in DOMAIN rts : ~(rts[y].expiresAt < t)} |-> rts[x]]

\* The row logout() asks TokenBlacklistModel.create to store: logout passes no
\* userId, so the column gets data.userId = undefined.
blacklistEntry(tok) == [expiresAt |-> tok.exp, userId |-> "undefined", reason |-> "logout"]

\* TokenBlacklistModel.create
createBlacklist(bl, tok, entry) ==
    [x \in DOMAIN bl \cup {tok} |-> IF x = tok THEN entry ELSE bl[x]]

\* Mutant: an entry counts until its expiry inclusive.
isBlacklistedInclusive(bl, tok, t) == tok \in DOMAIN bl /\ bl[tok].expiresAt >= t

\* Mutant: expired and unexpired entries are confused.
isBlacklistedFlipped(bl, tok, t) == tok \in DOMAIN bl /\ bl[tok].expiresAt < t

\* TokenBlacklistModel.isBlacklisted: findFirst({token, expiresAt: {gt: now}})
isBlacklisted(bl, tok, t) == tok \in DOMAIN bl /\ bl[tok].expiresAt > t

\* TokenBlacklistModel.deleteExpiredTokens
deleteExpiredBlacklist(bl, t) ==
    [x \in {y \in DOMAIN bl : ~(bl[y].expiresAt < t)} |-> bl[x]]

\* Mutant: the two-factor columns are not among the columns update() copies.
updateUserDropsSecret(us, id, data) ==
    [us EXCEPT ![id] = [f \in DOMAIN @ |->
        IF f \in DOMAIN data /\ f # "twoFactorSecret" THEN data[f] ELSE @[f]]]

\* UserModel.update: every field the caller gave (!== undefined) is written.
updateUser(us, id, data) ==
    [us EXCEPT ![id] = [f \in DOMAIN @ |-> IF f \in DOMAIN data THEN data[f] ELSE @[f]]]

\* UserModel.findByEmail: the ids of the rows with that email (none or one).
findByEmail(us, email) == {id \in DOMAIN us : us[id].email = email}

\* UserModel.findByUsername
findByUsername(us, name) == {id \in DOMAIN us : us[id].username = name}

\* Mutant: any row will do.
accountLiveAnyRow(us, id) == id \in DOMAIN us

\* `!user || !user.isActive` is false: the row is there and active.
accountLive(us, id) == id \in DOMAIN us /\ us[id].isActive

\* Mutant: the user table has no unique index.
userCreateRejectsNever(us, email, name) == FALSE

\* prisma.user.create rejects: email and username each carry a unique index.
userCreateRejects(us, email, name) ==
    findByEmail(us, email) # {} \/ findByUsername(us, name) # {}

\* UserModel.create: the row register asks for (lines 64-74), under a new id.
createUser(us, id, email, name, hashed) ==
    [x \in DOMAIN us \cup {id} |->
        IF x = id
        THEN [email |-> email, username |-> name, password |-> hashed, isActive |-> TRUE,
              role |-> "User",
              twoFactorEnabled |-> FALSE, twoFactorSecret |-> NoSecret, backupCodes |-> {},
              lastLoginAt |-> 0 - 1]
        ELSE us[x]]

\* UserModel.delete
deleteUser(us, id) == [x \in DOMAIN us \ {id} |-> us[x]]

(* ------------------------------- state -------------------------------- *)

VARIABLES
    now,            \* the clock (Date.now())
    users,          \* prisma.user rows, by id
    refreshTokens,  \* prisma.refreshToken rows, by token string
    blacklist,      \* prisma.tokenBlacklist rows, by token string
    nextToken,      \* the next unused value of generateSecureToken()
    pc,             \* per request handler: the await it is suspended at
    loc,            \* per request handler: the locals its remaining steps read
    reply,          \* the last answer a caller received: who, which call, what
    rotated,        \* history: refresh token -> tokens refreshToken() stored for it
    refreshRevoked, \* history: tokens revoked by refreshToken()
    loggedOut,      \* history: access tokens for which logout stored a blacklist entry
    logoutDone,     \* history: access tokens whose logout call has returned
    setupSecret,    \* history: account -> secret its last setupTwoFactor returned
    logoutRevoked,  \* history: refresh tokens for which logout's revokeToken resolved
    rolePermissions,\* prisma.rolePermission rows: role name -> permission names
    gateSeen,       \* history: what the last authorization check that answered had
                    \* before it (account, role in req.user, argument)
    jwt,            \* JwtUtils: the token string at hand
    verified,       \* JwtUtils: what the last verifyAccessToken returned or threw
    password,       \* PasswordUtils: the password at hand
    validation,     \* PasswordUtils: what the last validatePassword returned
    request,        \* optionalAuth: the last request it handled (req.user, next() calls)
    circuitState,   \* BaseService.circuitState
    failureCount,   \* BaseService.failureCount
    lastFailureTime,\* BaseService.lastFailureTime
    calls,          \* executeWithRetry, per caller: position, attempts, invocations made
    response,       \* the last ServiceResponse executeWithRetry returned
    streak,         \* history: operation failures since the last operation success
    env,            \* process.env: <NAME>_SERVICE_ENABLED and the credentials, per service
    configs,        \* ServiceConfigManager.configs
    services        \* ServiceManager.services: the registered instances

\* The state of the credential store and of the requests against it.
coreVars == <<now, users, refreshTokens, blacklist, nextToken, pc, loc, reply,
              rotated, refreshRevoked, loggedOut, logoutDone, setupSecret,
              logoutRevoked, rolePermissions, gateSeen>>

jwtVars == <<jwt, verified>>

passwordVars == <<password, validation>>

circuitVars == <<circuitState, failureCount, lastFailureTime, calls, response, streak>>

managerVars == <<env, configs, services>>

\* The state of the utilities and of the external-service layer.
utilVars == <<jwtVars, passwordVars, request, circuitVars, managerVars>>

vars == <<coreVars, utilVars>>

\* req.user of a request that no authenticate middleware attached a user to.
NoIdentity == "anonymous"

NoPayload == [sub |-> "none", email |-> "none", username |-> "none", roleId |-> "none",
              type |-> "none", iat |-> 0, exp |-> 0]

NoJwt == [payload |-> NoPayload, sig |-> <<"none", NoPayload>>]

NoVerified == [token |-> NoJwt, at |-> 0, ok |-> FALSE, payload |-> NoPayload,
               error |-> "none"]

NoPassword == [len |-> 0, has |-> {}]

NoValidation == [password |-> NoPassword, isValid |-> FALSE, errors |-> <<"none">>]

NoRequest == [header |-> FALSE, token |-> NoAccess, blacklisted |-> FALSE,
              user |-> NoIdentity, nexts |-> 0, thrown |-> "none"]

NoError == "none"

NoCall == [pc |-> "idle", attempts |-> 0, invoked |-> 0, lastError |-> NoError,
           trial |-> FALSE]

NoResponse == [proc |-> "none", success |-> FALSE, code |-> "none", attempts |-> 0,
               invoked |-> 0]

\* The external services ServiceConfigMap and ServiceRegistry name.
ServiceNames == {"phone", "sms", "email", "fileStorage"}

\* process.env with none of the services' variables set.
NoEnv == [n \in ServiceNames |-> [enabled |-> "unset", credentials |-> FALSE]]

\* The configs loadConfigs makes of it.
NoConfigs == [n \in ServiceNames |-> [enabled |-> FALSE, credentials |-> FALSE]]

\* role is req.user.roleId, arg the argument the authorization middleware was
\* built with (permission name, role name or role names, as a set).
NoLoc == [uid |-> "none", rt |-> NoToken, nrt |-> NoToken, at |-> NoAccess,
          email |-> "none", name |-> "none", pw |-> "none", role |-> "none", arg |-> {}]

NoGate == [uid |-> "none", role |-> "none", arg |-> {}]

NoReply == [proc |-> "none", op |-> "none", out |-> "none", rt |-> NoToken]

\* Account states the store may hold: Disabled, Setup-Pending, Enabled.
TwoFactorStates ==
    {[twoFactorEnabled |-> FALSE, twoFactorSecret |-> NoSecret, backupCodes |-> {}]}
    \cup [twoFactorEnabled : BOOLEAN, twoFactorSecret : {"s1"}, backupCodes : {BackupCodeIds}]

mkUser(id, tf) ==
    [email |-> id, username |-> id,
     password |-> hashPassword("pw1"), isActive |-> TRUE, role |-> "User",
     twoFactorEnabled |-> tf.twoFactorEnabled,
     twoFactorSecret |-> tf.twoFactorSecret,
     backupCodes |-> tf.backupCodes,
     lastLoginAt |-> 0 - 1]

\* What findByEmail / findById answer when there is no such row.
NoUser == [isActive |-> FALSE]

\* Two registered accounts, no session yet.  u1 is in any of the three
\* two-factor states, u2 has never set two-factor up.
Init ==
    /\ now = 0
    /\ \E tf \in TwoFactorStates :
          users = [u \in UserIds |->
                      IF u = "u1" THEN mkUser(u, tf)
                      ELSE mkUser(u, [twoFactorEnabled |-> FALSE, twoFactorSecret |-> NoSecret,
                                   backupCodes |-> {}])]
    /\ refreshTokens = << >>
    /\ blacklist = << >>
    /\ nextToken = 1
    /\ pc = [p \in Procs |-> "idle"]
    /\ loc = [p \in Procs |-> NoLoc]
    /\ reply = NoReply
    /\ rotated = [t \in TokenIds |-> {}]
    /\ refreshRevoked = {}
    /\ loggedOut = {}
    /\ logoutDone = {}
    /\ setupSecret = [u \in UserIds |-> NoSecret]
    /\ logoutRevoked = {}
    /\ rolePermissions = [r \in RoleNames |-> {}]
    /\ gateSeen = NoGate
    /\ jwt = NoJwt
    /\ verified = NoVerified
    /\ password = NoPassword
    /\ validation = NoValidation
    /\ request = NoRequest
    /\ circuitState = "CLOSED"
    /\ failureCount = 0
    /\ lastFailureTime = 0
    /\ calls = [p \in Procs |-> NoCall]
    /\ response = NoResponse
    /\ streak = 0
    /\ env = NoEnv
    /\ configs = NoConfigs
    /\ services = {}

\* Access tokens of u1 the server has signed by time t: one per login or
\* refresh, at the times 0..MaxIssue.
SignedTokens(t) ==
    {generateAccessToken("u1", i) : i \in 0..(IF t < MaxIssue THEN t ELSE MaxIssue)}

(* ------------------------------ plumbing ------------------------------ *)

\* A call ends: the handler is idle again, its locals are gone, and `out` is
\* what its caller saw.
Return(p, op, out) ==
    /\ pc' = [pc EXCEPT ![p] = "idle"]
    /\ loc' = [loc EXCEPT ![p] = NoLoc]
    /\ reply' = [proc |-> p, op |-> op, out |-> out, rt |-> loc[p].rt]

\* The same for a call about refresh token R that ends at its first await.
ReturnAbout(p, op, out, R) ==
    /\ pc' = [pc EXCEPT ![p] = "idle"]
    /\ loc' = [loc EXCEPT ![p] = NoLoc]
    /\ reply' = [proc |-> p, op |-> op, out |-> out, rt |-> R]

\* A call goes on to its next await with locals l.
Goto(p, label, l) ==
    /\ pc' = [pc EXCEPT ![p] = label]
    /\ loc' = [loc EXCEPT ![p] = l]
    /\ UNCHANGED reply

\* Date.now() advances between any two steps.
Tick ==
    /\ now < MaxTime
    /\ now' = now + 1
    /\ UNCHANGED <<users, refreshTokens, blacklist, nextToken, pc, loc, reply, rotated,
                   refreshRevoked, loggedOut, logoutDone, setupSecret,
                   logoutRevoked, rolePermissions, gateSeen, utilVars>>

\* The awaits whose rejection propagates out of the AuthService method, and
\* the method each belongs to.
ThrowingPcs ==
    [reg_username |-> "register", reg_create |-> "register", reg_token |-> "register",
     login_create |-> "login", login_last |-> "login", refresh_user |-> "refresh",
     refresh_revoke |-> "refresh", refresh_create |-> "refresh",
     enable_update |-> "enable", disable_update |-> "disable",
     role_delete |-> "update", role_create |-> "update"]

\* The pending store call rejects (store error, aborted connection): the
\* exception leaves the method, nothing after the await runs.
StoreError(p) ==
    /\ pc[p] \in DOMAIN ThrowingPcs
    /\ Return(p, ThrowingPcs[pc[p]], "store error")
    /\ UNCHANGED <<now, users, refreshTokens, blacklist, nextToken, rotated, refreshRevoked,
                   loggedOut, logoutDone, setupSecret,
                   logoutRevoked, rolePermissions, gateSeen, utilVars>>

(* -------------------------- AuthService.login ------------------------- *)

\* Mutant: login without the isActive check.
loginCheckSkipsActive(found, user, pw, code, t) ==
    IF ~found THEN "Invalid email or password"
    ELSE IF ~comparePassword(pw, user.password) THEN "Invalid email or password"
    ELSE IF user.twoFactorEnabled /\ code = NoCode
        THEN "Two-factor authentication code required"
    ELSE IF user.twoFactorEnabled /\ user.twoFactorSecret = NoSecret
        THEN "Two-factor authentication not properly set up"
    ELSE IF user.twoFactorEnabled /\ ~verifyToken(user.twoFactorSecret, code, t)
        THEN "Invalid two-factor authentication code"
    ELSE "ok"

\* What login throws, if anything, once findByEmail has answered: the checks
\* of lines 112-141 in their order.  `found` is whether the email has an account.
loginCheck(found, user, pw, code, t) ==
    IF ~found THEN "Invalid email or password"
    ELSE IF ~user.isActive THEN "Account is disabled"
    ELSE IF ~comparePassword(pw, user.password) THEN "Invalid email or password"
    ELSE IF user.twoFactorEnabled /\ code = NoCode
        THEN "Two-factor authentication code required"
    ELSE IF user.twoFactorEnabled /\ user.twoFactorSecret = NoSecret
        THEN "Two-factor authentication not properly set up"
    ELSE IF user.twoFactorEnabled /\ ~verifyToken(user.twoFactorSecret, code, t)
        THEN "Invalid two-factor authentication code"
    ELSE "ok"

\* findByEmail, the checks, and the two tokens generated before the first write.
LoginFind(p, email, pw, code) ==
    /\ pc[p] = "idle"
    /\ LET ids == findByEmail(users, email)
           found == ids # {}
           id == IF found THEN CHOOSE i \in ids : TRUE ELSE "none"
           user == IF found THEN users[id] ELSE NoUser
           out == loginCheck(found, user, pw, code, now)
       IN IF out # "ok"
          THEN /\ Return(p, "login", out)
               /\ UNCHANGED nextToken
          ELSE /\ nextToken <= MaxTokens
               /\ nextToken' = nextToken + 1
               /\ Goto(p, "login_create",
                       [NoLoc EXCEPT !.uid = id, !.nrt = nextToken,
                                     !.at = generateAccessToken(id, now)])
    /\ UNCHANGED <<now, users, refreshTokens, blacklist, rotated, refreshRevoked, loggedOut,
                   logoutDone, setupSecret,
                   logoutRevoked, rolePermissions, gateSeen, utilVars>>

\* await RefreshTokenModel.create(...)
LoginCreate(p) ==
    /\ pc[p] = "login_create"
    /\ refreshTokens' = createRefreshToken(refreshTokens, loc[p].nrt, loc[p].uid, now + RefreshTTL)
    /\ Goto(p, "login_last", loc[p])
    /\ UNCHANGED <<now, users, blacklist, nextToken, rotated, refreshRevoked, loggedOut,
                   logoutDone, setupSecret,
                   logoutRevoked, rolePermissions, gateSeen, utilVars>>

\* await UserModel.updateLastLogin(user.id); return the token pair.
LoginLast(p) ==
    /\ pc[p] = "login_last"
    /\ IF loc[p].uid \in DOMAIN users
       THEN /\ users' = [users EXCEPT ![loc[p].uid].lastLoginAt = now]
            /\ Return(p, "login", "ok")
       ELSE /\ UNCHANGED users
            /\ Return(p, "login", "store error")
    /\ UNCHANGED <<now, refreshTokens, blacklist, nextToken, rotated, refreshRevoked,
                   loggedOut, logoutDone, setupSecret,
                   logoutRevoked, rolePermissions, gateSeen, utilVars>>

(* ------------------------- AuthService.register ----------------------- *)

\* Emails, usernames and passwords register is called with: taken and free
\* ones, a password that passes PasswordUtils.validatePassword and one that
\* does not.
RegEmails == {"u1", "u3", "u4"}

RegNames == {"u1", "u3"}

RegPasswords == {"pw1", "weak"}

\* The ids prisma gives to new rows.
NewUserIds == {"n1", "n2"}

\* PasswordUtils.validatePassword(pw).isValid
validatePassword(pw) == pw # "weak"

\* Password validation, then await UserModel.findByEmail(data.email).
RegisterFind(p, email, name, pw) ==
    /\ pc[p] = "idle"
    /\ IF ~validatePassword(pw)
       THEN Return(p, "register", "Password validation failed")
       ELSE IF findByEmail(users, email) # {}
       THEN Return(p, "register", "User with this email already exists")
       ELSE Goto(p, "reg_username", [NoLoc EXCEPT !.email = email, !.name = name, !.pw = pw])
    /\ UNCHANGED <<now, users, refreshTokens, blacklist, nextToken, rotated, refreshRevoked,
                   loggedOut, logoutDone, setupSecret,
                   logoutRevoked, rolePermissions, gateSeen, utilVars>>

\* await UserModel.findByUsername(data.username); then the password is hashed
\* and the default role looked up (the role table is seeded and never changes).
RegisterUsername(p) ==
    /\ pc[p] = "reg_username"
    /\ IF findByUsername(users, loc[p].name) # {}
       THEN Return(p, "register", "Username already taken")
       ELSE Goto(p, "reg_create", loc[p])
    /\ UNCHANGED <<now, users, refreshTokens, blacklist, nextToken, rotated, refreshRevoked,
                   loggedOut, logoutDone, setupSecret,
                   logoutRevoked, rolePermissions, gateSeen, utilVars>>

\* await UserModel.create(...): the unique indexes decide; then the access
\* token and the refresh token value are generated.
RegisterCreate(p) ==
    /\ pc[p] = "reg_create"
    /\ IF userCreateRejects(users, loc[p].email, loc[p].name)
       THEN /\ Return(p, "register", "Unique constraint failed")
            /\ UNCHANGED <<users, nextToken>>
       ELSE /\ nextToken <= MaxTokens
            /\ NewUserIds \ DOMAIN users # {}
            /\ LET id == CHOOSE i \in NewUserIds \ DOMAIN users : TRUE
               IN /\ users' = createUser(users, id, loc[p].email, loc[p].name,
                                         hashPassword(loc[p].pw))
                  /\ Goto(p, "reg_token",
                          [loc[p] EXCEPT !.uid = id, !.nrt = nextToken,
                                         !.at = generateAccessToken(id, now)])
            /\ nextToken' = nextToken + 1
    /\ UNCHANGED <<now, refreshTokens, blacklist, rotated, refreshRevoked, loggedOut,
                   logoutDone, setupSecret,
                   logoutRevoked, rolePermissions, gateSeen, utilVars>>

\* await RefreshTokenModel.create(...); the verification mail (its failure is
\* caught inside sendVerificationEmail); return the token pair.
RegisterToken(p) ==
    /\ pc[p] = "reg_token"
    /\ refreshTokens' = createRefreshToken(refreshTokens, loc[p].nrt, loc[p].uid, now + RefreshTTL)
    /\ Return(p, "register", "ok")
    /\ UNCHANGED <<now, users, blacklist, nextToken, rotated, refreshRevoked, loggedOut,
                   logoutDone, setupSecret,
                   logoutRevoked, rolePermissions, gateSeen, utilVars>>

(* ----------------------- AuthService.refreshToken --------------------- *)

\* Mutant: the revoked flag is not looked at.
refreshCheckIgnoresRevoked(rts, R, t) ==
    IF ~hasRefreshToken(rts, R) THEN "Invalid refresh token"
    ELSE IF rts[R].expiresAt < t THEN "Refresh token expired"
    ELSE "ok"

\* What refreshToken throws once findByToken has answered (lines 178-186).
refreshCheck(rts, R, t) ==
    IF ~hasRefreshToken(rts, R) THEN "Invalid refresh token"
    ELSE IF rts[R].isRevoked THEN "Invalid refresh token"
    ELSE IF rts[R].expiresAt < t THEN "Refresh token expired"
    ELSE "ok"

\* await RefreshTokenModel.findByToken(data.refreshToken) and its checks.
RefreshFind(p, R) ==
    /\ pc[p] = "idle"
    /\ LET out == refreshCheck(refreshTokens, R, now)
       IN IF out # "ok"
          THEN ReturnAbout(p, "refresh", out, R)
          ELSE Goto(p, "refresh_user",
                    [NoLoc EXCEPT !.rt = R, !.uid = refreshTokens[R].userId])
    /\ UNCHANGED <<now, users, refreshTokens, blacklist, nextToken, rotated, refreshRevoked,
                   loggedOut, logoutDone, setupSecret,
                   logoutRevoked, rolePermissions, gateSeen, utilVars>>

\* await UserModel.findById(refreshToken.userId); then both tokens are generated.
RefreshUser(p) ==
    /\ pc[p] = "refresh_user"
    /\ IF ~accountLive(users, loc[p].uid)
       THEN /\ Return(p, "refresh", "User not found or inactive")
            /\ UNCHANGED nextToken
       ELSE /\ nextToken <= MaxTokens
            /\ nextToken' = nextToken + 1
            /\ Goto(p, "refresh_revoke",
                    [loc[p] EXCEPT !.nrt = nextToken,
                                   !.at = generateAccessToken(loc[p].uid, now)])
    /\ UNCHANGED <<now, users, refreshTokens, blacklist, rotated, refreshRevoked, loggedOut,
                   logoutDone, setupSecret,
                   logoutRevoked, rolePermissions, gateSeen, utilVars>>

\* await RefreshTokenModel.revokeToken(data.refreshToken): prisma's update
\* throws when the row is gone.
RefreshRevoke(p) ==
    /\ pc[p] = "refresh_revoke"
    /\ IF hasRefreshToken(refreshTokens, loc[p].rt)
       THEN /\ refreshTokens' = revokeToken(refreshTokens, loc[p].rt)
            /\ refreshRevoked' = refreshRevoked \cup {loc[p].rt}
            /\ Goto(p, "refresh_create", loc[p])
       ELSE /\ Return(p, "refresh", "store error")
            /\ UNCHANGED <<refreshTokens, refreshRevoked>>
    /\ UNCHANGED <<now, users, blacklist, nextToken, rotated, loggedOut, logoutDone,
                   setupSecret,
                   logoutRevoked, rolePermissions, gateSeen, utilVars>>

\* await RefreshTokenModel.create(...); return the new pair.
RefreshCreate(p) ==
    /\ pc[p] = "refresh_create"
    /\ refreshTokens' = createRefreshToken(refreshTokens, loc[p].nrt, loc[p].uid, now + RefreshTTL)
    /\ rotated' = [rotated EXCEPT ![loc[p].rt] = @ \cup {loc[p].nrt}]
    /\ Return(p, "refresh", "ok")
    /\ UNCHANGED <<now, users, blacklist, nextToken, refreshRevoked, loggedOut, logoutDone,
                   setupSecret,
                   logoutRevoked, rolePermissions, gateSeen, utilVars>>

\* RefreshTokenModel.deleteExpiredTokens()
CleanupRefreshTokens ==
    /\ refreshTokens' = deleteExpiredRefreshTokens(refreshTokens, now)
    /\ refreshTokens' # refreshTokens
    /\ UNCHANGED <<now, users, blacklist, nextToken, pc, loc, reply, rotated, refreshRevoked,
                   loggedOut, logoutDone, setupSecret,
                   logoutRevoked, rolePermissions, gateSeen, utilVars>>

(* -------------------------- AuthService.logout ------------------------ *)

\* try { decodeToken; await TokenBlacklistModel.create(...) } catch { log }.
\* The create stores the row, or rejects (store error, or the unique index on
\* token when the row is already there); either way logout goes on.
LogoutBlacklist(p, T, R) ==
    /\ pc[p] = "idle"
    /\ \/ /\ T \notin DOMAIN blacklist
          /\ blacklist' = createBlacklist(blacklist, T, blacklistEntry(T))
          /\ loggedOut' = loggedOut \cup {T}
       \/ UNCHANGED <<blacklist, loggedOut>>
    /\ Goto(p, "logout_revoke", [NoLoc EXCEPT !.at = T, !.rt = R])
    /\ UNCHANGED <<now, users, refreshTokens, nextToken, rotated, refreshRevoked, logoutDone,
                   setupSecret,
                   logoutRevoked, rolePermissions, gateSeen, utilVars>>

\* Mutant: the second try/catch is missing, a failed revoke leaves logout.
LogoutRevokeThrows(p) ==
    /\ pc[p] = "logout_revoke"
    /\ \/ /\ hasRefreshToken(refreshTokens, loc[p].rt)
          /\ refreshTokens' = revokeToken(refreshTokens, loc[p].rt)
          /\ logoutRevoked' = logoutRevoked \cup {loc[p].rt}
          /\ logoutDone' = logoutDone \cup {loc[p].at}
          /\ Return(p, "logout", "ok")
       \/ /\ UNCHANGED <<refreshTokens, logoutDone, logoutRevoked>>
          /\ Return(p, "logout", "store error")
    /\ UNCHANGED <<now, users, blacklist, nextToken, rotated, refreshRevoked, loggedOut,
                   setupSecret, rolePermissions, gateSeen, utilVars>>

\* try { await RefreshTokenModel.revokeToken(refreshToken) } catch { log }.
LogoutRevoke(p) ==
    /\ pc[p] = "logout_revoke"
    /\ \/ /\ hasRefreshToken(refreshTokens, loc[p].rt)
          /\ refreshTokens' = revokeToken(refreshTokens, loc[p].rt)
          /\ logoutRevoked' = logoutRevoked \cup {loc[p].rt}
       \/ UNCHANGED <<refreshTokens, logoutRevoked>>
    /\ logoutDone' = logoutDone \cup {loc[p].at}
    /\ Return(p, "logout", "ok")
    /\ UNCHANGED <<now, users, blacklist, nextToken, rotated, refreshRevoked, loggedOut,
                   setupSecret, rolePermissions, gateSeen, utilVars>>

(* ---------------------- AuthMiddleware.authenticate ------------------- *)

\* The answer of authenticate once isBlacklisted has resolved (lines 31-44).
authCheck(bl, T, t) ==
    IF isBlacklisted(bl, T, t) THEN "401 Token has been revoked"
    ELSE IF accessExpired(T, t) THEN "401 Invalid or expired token"
    ELSE IF T.type # "access" THEN "401 Invalid token type"
    ELSE "ok"

\* The Bearer token is taken from the header and the blacklist lookup is
\* issued, whatever the token is: nothing is verified before the lookup.
AuthStart(p, T) ==
    /\ pc[p] = "idle"
    /\ Goto(p, "auth_blacklist", [NoLoc EXCEPT !.at = T])
    /\ UNCHANGED <<now, users, refreshTokens, blacklist, nextToken, rotated, refreshRevoked,
                   loggedOut, logoutDone, setupSecret,
                   logoutRevoked, rolePermissions, gateSeen, utilVars>>

\* Mutant: a lookup that could not be made counts as "not blacklisted".
AuthBlacklistFailsOpen(p) ==
    /\ pc[p] = "auth_blacklist"
    /\ IF accessExpired(loc[p].at, now)
       THEN Return(p, "authenticate", "401 Invalid or expired token")
       ELSE Goto(p, "auth_user", [loc[p] EXCEPT !.uid = loc[p].at.sub])
    /\ UNCHANGED <<now, users, refreshTokens, blacklist, nextToken, rotated, refreshRevoked,
                   loggedOut, logoutDone, setupSecret,
                   logoutRevoked, rolePermissions, gateSeen, utilVars>>

\* await TokenBlacklistModel.isBlacklisted(token) rejects: the catch block
\* answers 401.
AuthBlacklistFails(p) ==
    /\ pc[p] = "auth_blacklist"
    /\ Return(p, "authenticate", "401 Invalid or expired token")
    /\ UNCHANGED <<now, users, refreshTokens, blacklist, nextToken, rotated, refreshRevoked,
                   loggedOut, logoutDone, setupSecret,
                   logoutRevoked, rolePermissions, gateSeen, utilVars>>

\* await TokenBlacklistModel.isBlacklisted(token) resolves; then
\* JwtUtils.verifyAccessToken and the type check.
AuthBlacklist(p) ==
    /\ pc[p] = "auth_blacklist"
    /\ LET out == authCheck(blacklist, loc[p].at, now)
       IN IF out # "ok"
          THEN Return(p, "authenticate", out)
          ELSE Goto(p, "auth_user", [loc[p] EXCEPT !.uid = loc[p].at.sub])
    /\ UNCHANGED <<now, users, refreshTokens, blacklist, nextToken, rotated, refreshRevoked,
                   loggedOut, logoutDone, setupSecret,
                   logoutRevoked, rolePermissions, gateSeen, utilVars>>

\* Mutant: authenticate without the account check.
AuthUserSkipsActive(p) ==
    /\ pc[p] = "auth_user"
    /\ \/ Return(p, "authenticate", "next")
       \/ Return(p, "authenticate", "401 Invalid or expired token")
    /\ UNCHANGED <<now, users, refreshTokens, blacklist, nextToken, rotated, refreshRevoked,
                   loggedOut, logoutDone, setupSecret,
                   logoutRevoked, rolePermissions, gateSeen, utilVars>>

\* await UserModel.findById(decoded.sub); req.user = ...; next().
AuthUser(p) ==
    /\ pc[p] = "auth_user"
    /\ \/ IF ~accountLive(users, loc[p].uid)
          THEN Return(p, "authenticate", "401 User not found or inactive")
          ELSE Return(p, "authenticate", "next")
       \/ Return(p, "authenticate", "401 Invalid or expired token")
    /\ UNCHANGED <<now, users, refreshTokens, blacklist, nextToken, rotated, refreshRevoked,
                   loggedOut, logoutDone, setupSecret,
                   logoutRevoked, rolePermissions, gateSeen, utilVars>>

\* TokenBlacklistModel.deleteExpiredTokens()
CleanupBlacklist ==
    /\ blacklist' = deleteExpiredBlacklist(blacklist, now)
    /\ blacklist' # blacklist
    /\ UNCHANGED <<now, users, refreshTokens, nextToken, pc, loc, reply, rotated,
                   refreshRevoked, loggedOut, logoutDone, setupSecret,
                   logoutRevoked, rolePermissions, gateSeen, utilVars>>

(* ------------------------- two-factor operations ---------------------- *)

\* AuthService.setupTwoFactor: findById, the password check, a new secret and
\* backup codes returned to the caller.  Nothing is written to the store.
SetupTwoFactor(p, uid, pw, secret) ==
    /\ pc[p] = "idle"
    /\ IF ~comparePassword(pw, users[uid].password)
       THEN /\ Return(p, "setup", "Invalid password")
            /\ UNCHANGED setupSecret
       ELSE /\ Return(p, "setup", "ok")
            /\ setupSecret' = [setupSecret EXCEPT ![uid] = secret]
    /\ UNCHANGED <<now, users, refreshTokens, blacklist, nextToken, rotated, refreshRevoked,
                   loggedOut, logoutDone, logoutRevoked, rolePermissions, gateSeen, utilVars>>

\* Mutant: a valid code alone is enough.
enableCheckCodeOnly(user, pw, code, t) ==
    IF user.twoFactorSecret = NoSecret THEN "Two-factor authentication not set up"
    ELSE IF ~verifyToken(user.twoFactorSecret, code, t)
        THEN "Invalid two-factor authentication code"
    ELSE "ok"

\* What enableTwoFactor throws once findById has answered (lines 275-289).
enableCheck(user, pw, code, t) ==
    IF ~comparePassword(pw, user.password) THEN "Invalid password"
    ELSE IF user.twoFactorSecret = NoSecret THEN "Two-factor authentication not set up"
    ELSE IF ~verifyToken(user.twoFactorSecret, code, t)
        THEN "Invalid two-factor authentication code"
    ELSE "ok"

\* AuthService.enableTwoFactor up to its write.
EnableFind(p, uid, pw, code) ==
    /\ pc[p] = "idle"
    /\ LET out == enableCheck(users[uid], pw, code, now)
       IN IF out # "ok"
          THEN Return(p, "enable", out)
          ELSE Goto(p, "enable_update", [NoLoc EXCEPT !.uid = uid])
    /\ UNCHANGED <<now, users, refreshTokens, blacklist, nextToken, rotated, refreshRevoked,
                   loggedOut, logoutDone, setupSecret,
                   logoutRevoked, rolePermissions, gateSeen, utilVars>>

\* await UserModel.update(userId, { twoFactorEnabled: true })
EnableUpdate(p) ==
    /\ pc[p] = "enable_update"
    /\ users' = updateUser(users, loc[p].uid, [twoFactorEnabled |-> TRUE])
    /\ Return(p, "enable", "ok")
    /\ UNCHANGED <<now, refreshTokens, blacklist, nextToken, rotated, refreshRevoked,
                   loggedOut, logoutDone, setupSecret,
                   logoutRevoked, rolePermissions, gateSeen, utilVars>>

\* AuthService.disableTwoFactor up to its write.
DisableFind(p, uid, pw) ==
    /\ pc[p] = "idle"
    /\ IF ~comparePassword(pw, users[uid].password)
       THEN Return(p, "disable", "Invalid password")
       ELSE Goto(p, "disable_update", [NoLoc EXCEPT !.uid = uid])
    /\ UNCHANGED <<now, users, refreshTokens, blacklist, nextToken, rotated, refreshRevoked,
                   loggedOut, logoutDone, setupSecret,
                   logoutRevoked, rolePermissions, gateSeen, utilVars>>

\* await UserModel.update(userId, { twoFactorEnabled: false, twoFactorSecret: null, backupCodes: [] })
DisableUpdate(p) ==
    /\ pc[p] = "disable_update"
    /\ users' = updateUser(users, loc[p].uid,
                           [twoFactorEnabled |-> FALSE, twoFactorSecret |-> NoSecret,
                            backupCodes |-> {}])
    /\ Return(p, "disable", "ok")
    /\ UNCHANGED <<now, refreshTokens, blacklist, nextToken, rotated, refreshRevoked,
                   loggedOut, logoutDone, setupSecret,
                   logoutRevoked, rolePermissions, gateSeen, utilVars>>

(* --------------------- AuthController.changePassword ------------------ *)

\* The request bodies changePassword is called with (currentPassword,
\* newPassword, confirmPassword): "weak" fails validatePassword, "" is a
\* missing field.
ChangeBodies ==
    [cur : Passwords, new : {"pw2", "weak"}, confirm : {"pw2", "weak"}]
    \cup {[cur |-> "", new |-> "pw2", confirm |-> "pw2"]}

\* The answer of changePassword before it writes (lines 475-536): the checks
\* on the request, findById, comparePassword, validatePassword.
changePasswordCheck(us, uid, cur, new, confirm) ==
    IF uid = NoIdentity THEN "401 Authentication required"
    ELSE IF cur = "" \/ new = "" \/ confirm = "" THEN "400 All password fields are required"
    ELSE IF new # confirm THEN "400 New passwords do not match"
    ELSE IF uid \notin DOMAIN us THEN "404 User not found"
    ELSE IF ~comparePassword(cur, us[uid].password) THEN "400 Current password is incorrect"
    ELSE IF ~validatePassword(new) THEN "400 Password validation failed"
    ELSE "ok"

\* changePassword up to its write.
ChangePasswordFind(p, uid, cur, new, confirm) ==
    /\ pc[p] = "idle"
    /\ LET out == changePasswordCheck(users, uid, cur, new, confirm)
       IN IF out # "ok"
          THEN Return(p, "changePassword", out)
          ELSE Goto(p, "chpw_update", [NoLoc EXCEPT !.uid = uid, !.pw = new])
    /\ UNCHANGED <<now, users, refreshTokens, blacklist, nextToken, rotated, refreshRevoked,
                   loggedOut, logoutDone, setupSecret,
                   logoutRevoked, rolePermissions, gateSeen, utilVars>>

\* Mutant: a password change ends the account's sessions
\* (RefreshTokenModel.revokeAllUserTokens).
ChangePasswordUpdateEndsSessions(p) ==
    /\ pc[p] = "chpw_update"
    /\ loc[p].uid \in DOMAIN users
    /\ users' = updateUser(users, loc[p].uid, [password |-> hashPassword(loc[p].pw)])
    /\ refreshTokens' = [x \in DOMAIN refreshTokens |->
                            IF refreshTokens[x].userId = loc[p].uid
                            THEN [refreshTokens[x] EXCEPT !.isRevoked = TRUE]
                            ELSE refreshTokens[x]]
    /\ Return(p, "changePassword", "200 Password changed successfully")
    /\ UNCHANGED <<now, blacklist, nextToken, rotated, refreshRevoked,
                   loggedOut, logoutDone, setupSecret,
                   logoutRevoked, rolePermissions, gateSeen, utilVars>>

\* await UserModel.update(user.id, { password: hashedNewPassword }) and the
\* 200; a rejected update (store error, row gone) is caught and answered 400.
ChangePasswordUpdate(p) ==
    /\ pc[p] = "chpw_update"
    /\ \/ /\ loc[p].uid \in DOMAIN users
          /\ users' = updateUser(users, loc[p].uid, [password |-> hashPassword(loc[p].pw)])
          /\ Return(p, "changePassword", "200 Password changed successfully")
       \/ /\ UNCHANGED users
          /\ Return(p, "changePassword", "400 store error")
    /\ UNCHANGED <<now, refreshTokens, blacklist, nextToken, rotated, refreshRevoked,
                   loggedOut, logoutDone, setupSecret,
                   logoutRevoked, rolePermissions, gateSeen, utilVars>>

(* --------------------------- account changes -------------------------- *)

\* UserModel.update(id, { isActive: false }): an account is deactivated.
Deactivate(u) ==
    /\ accountLive(users, u)
    /\ users' = updateUser(users, u, [isActive |-> FALSE])
    /\ UNCHANGED <<now, refreshTokens, blacklist, nextToken, pc, loc, reply, rotated,
                   refreshRevoked, loggedOut, logoutDone, setupSecret,
                   logoutRevoked, rolePermissions, gateSeen, utilVars>>

\* UserModel.delete(id): the row is gone; rows of other tables that name the
\* account are left as they are.
DeleteUser(u) ==
    /\ u \in DOMAIN users
    /\ users' = deleteUser(users, u)
    /\ UNCHANGED <<now, refreshTokens, blacklist, nextToken, pc, loc, reply, rotated,
                   refreshRevoked, loggedOut, logoutDone, setupSecret,
                   logoutRevoked, rolePermissions, gateSeen, utilVars>>

\* POST /auth/password/reset-request: AuthController.requestPasswordReset
\* around AuthService.requestPasswordReset.  The service throws for an unknown
\* email and the controller turns any throw into a 400; a failure to send the
\* mail is caught inside sendPasswordResetEmail.
resetResponse(found) ==
    IF found THEN "200 success: If this email exists, a reset link will be sent"
    ELSE "400 error: If this email exists, a reset link will be sent"

RequestPasswordReset(p, email) ==
    /\ pc[p] = "idle"
    /\ Return(p, "reset-request", resetResponse(findByEmail(users, email) # {}))
    /\ UNCHANGED <<now, users, refreshTokens, blacklist, nextToken, rotated, refreshRevoked,
                   loggedOut, logoutDone, setupSecret,
                   logoutRevoked, rolePermissions, gateSeen, utilVars>>

(* ---------------------- roles and permissions ------------------------- *)

\* Permission names, stored and asked for: an exact name and a pattern that
\* would cover it if names were matched as patterns.
PermissionNames == {"cases:write", "cases:*"}

\* Role names a route may ask for: those of the role table and one that is
\* not in it.
AskedRoles == RoleNames \cup {"Manager"}

\* The role lists requireAnyRole is built with.
AskedRoleSets == {{}, {"Admin"}, {"Admin", "Manager"}}

\* prisma.rolePermission.create: a role is granted a permission.
GrantPermission(r, perm) ==
    /\ perm \notin rolePermissions[r]
    /\ rolePermissions' = [rolePermissions EXCEPT ![r] = @ \cup {perm}]
    /\ UNCHANGED <<now, users, refreshTokens, blacklist, nextToken, pc, loc, reply, rotated,
                   refreshRevoked, loggedOut, logoutDone, setupSecret, logoutRevoked,
                   gateSeen, utilVars>>

\* UserModel.update(id, { roleId }): await prisma.user.update (rejects when the
\* row is gone).
UpdateRole(p, u, r) ==
    /\ pc[p] = "idle"
    /\ IF u \in DOMAIN users
       THEN Goto(p, "role_delete", [NoLoc EXCEPT !.uid = u, !.name = r])
       ELSE Return(p, "update", "store error")
    /\ UNCHANGED <<now, users, refreshTokens, blacklist, nextToken, rotated, refreshRevoked,
                   loggedOut, logoutDone, setupSecret,
                   logoutRevoked, rolePermissions, gateSeen, utilVars>>

\* await prisma.user_Role.deleteMany({ where: { user_id: id } })
UpdateRoleDelete(p) ==
    /\ pc[p] = "role_delete"
    /\ users' = IF loc[p].uid \in DOMAIN users
                THEN [users EXCEPT ![loc[p].uid].role = NoRole]
                ELSE users
    /\ Goto(p, "role_create", loc[p])
    /\ UNCHANGED <<now, refreshTokens, blacklist, nextToken, rotated, refreshRevoked,
                   loggedOut, logoutDone, setupSecret,
                   logoutRevoked, rolePermissions, gateSeen, utilVars>>

\* await prisma.user_Role.create(...): rejects when the user row is gone.
UpdateRoleCreate(p) ==
    /\ pc[p] = "role_create"
    /\ IF loc[p].uid \in DOMAIN users
       THEN /\ users' = [users EXCEPT ![loc[p].uid].role = loc[p].name]
            /\ Return(p, "update", "ok")
       ELSE /\ UNCHANGED users
            /\ Return(p, "update", "store error")
    /\ UNCHANGED <<now, refreshTokens, blacklist, nextToken, rotated, refreshRevoked,
                   loggedOut, logoutDone, setupSecret,
                   logoutRevoked, rolePermissions, gateSeen, utilVars>>

(* ------------- AuthMiddleware.authorize / requireRole / requireAnyRole ---- *)

\* Mutant: a stored name is matched as a pattern.
hasPermissionPattern(us, rp, uid, perm) ==
    /\ us[uid].role \in DOMAIN rp
    /\ (perm \in rp[us[uid].role] \/ "cases:*" \in rp[us[uid].role])

\* user.role?.permissions.some((p) => p.name === permission)
hasPermission(us, rp, uid, perm) ==
    /\ us[uid].role \in DOMAIN rp
    /\ perm \in rp[us[uid].role]

\* Mutant: both kinds of failure are answered 401.
authorizeCheckConflates(us, rp, uid, perm) ==
    IF uid \notin DOMAIN us THEN "401 User not found"
    ELSE IF ~hasPermission(us, rp, uid, perm) THEN "401 Insufficient permissions"
    ELSE "next"

\* The answer of authorize once findById has resolved (lines 76-87).
authorizeCheck(us, rp, uid, perm) ==
    IF uid \notin DOMAIN us THEN "401 User not found"
    ELSE IF ~hasPermission(us, rp, uid, perm) THEN "403 Insufficient permissions"
    ELSE "next"

\* Mutant: only a role that is there is compared.
requireRoleCheckLoose(us, uid, roleName) ==
    IF uid \notin DOMAIN us THEN "401 User not found"
    ELSE IF us[uid].role # NoRole /\ us[uid].role # roleName
        THEN "403 Insufficient role permissions"
    ELSE "next"

\* The answer of requireRole once findById has resolved (lines 103-114):
\* user.role?.name !== roleName.
requireRoleCheck(us, uid, roleName) ==
    IF uid \notin DOMAIN us THEN "401 User not found"
    ELSE IF us[uid].role = NoRole \/ us[uid].role # roleName
        THEN "403 Insufficient role permissions"
    ELSE "next"

\* The answer of requireAnyRole once findById has resolved (lines 129-140):
\* !user.role || !roles.includes(user.role.name).
requireAnyRoleCheck(us, uid, roles) ==
    IF uid \notin DOMAIN us THEN "401 User not found"
    ELSE IF us[uid].role = NoRole \/ us[uid].role \notin roles
        THEN "403 Insufficient role permissions"
    ELSE "next"

\* The three middlewares start alike: `!req.user` is answered 401, otherwise
\* findById(req.user.id) is issued.  rid is the roleId authenticate attached.
GateStart(p, op, label, uid, rid, arg) ==
    /\ pc[p] = "idle"
    /\ IF uid = NoIdentity
       THEN /\ Return(p, op, "401 Authentication required")
            /\ gateSeen' = [uid |-> uid, role |-> rid, arg |-> arg]
       ELSE /\ Goto(p, label, [NoLoc EXCEPT !.uid = uid, !.role = rid, !.arg = arg])
            /\ UNCHANGED gateSeen
    /\ UNCHANGED <<now, users, refreshTokens, blacklist, nextToken, rotated, refreshRevoked,
                   loggedOut, logoutDone, setupSecret,
                   logoutRevoked, rolePermissions, utilVars>>

\* findById has resolved and the middleware answers `out`, or it has rejected
\* and the catch block answers 500 with `failure`.
GateAnswer(p, op, out, failure) ==
    /\ \/ Return(p, op, out)
       \/ Return(p, op, failure)
    /\ gateSeen' = [uid |-> loc[p].uid, role |-> loc[p].role, arg |-> loc[p].arg]
    /\ UNCHANGED <<now, users, refreshTokens, blacklist, nextToken, rotated, refreshRevoked,
                   loggedOut, logoutDone, setupSecret,
                   logoutRevoked, rolePermissions, utilVars>>

AuthorizeStart(p, uid, rid, perm) ==
    GateStart(p, "authorize", "authorize_find", uid, rid, {perm})

\* Mutant: the role is the one req.user carries, not the one in the store.
AuthorizeFindByTokenRole(p) ==
    /\ pc[p] = "authorize_find"
    /\ GateAnswer(p, "authorize",
                  IF loc[p].uid \notin DOMAIN users THEN "401 User not found"
                  ELSE IF loc[p].role \in DOMAIN rolePermissions
                          /\ loc[p].arg \subseteq rolePermissions[loc[p].role]
                      THEN "next"
                  ELSE "403 Insufficient permissions",
                  "500 Authorization check failed")

AuthorizeFind(p) ==
    /\ pc[p] = "authorize_find"
    /\ GateAnswer(p, "authorize",
                  authorizeCheck(users, rolePermissions, loc[p].uid,
                                 CHOOSE perm \in loc[p].arg : TRUE),
                  "500 Authorization check failed")

RequireRoleStart(p, uid, rid, roleName) ==
    GateStart(p, "requireRole", "requireRole_find", uid, rid, {roleName})

RequireRoleFind(p) ==
    /\ pc[p] = "requireRole_find"
    /\ GateAnswer(p, "requireRole",
                  requireRoleCheck(users, loc[p].uid, CHOOSE r \in loc[p].arg : TRUE),
                  "500 Role authorization check failed")

RequireAnyRoleStart(p, uid, rid, roles) ==
    GateStart(p, "requireAnyRole", "requireAnyRole_find", uid, rid, roles)

RequireAnyRoleFind(p) ==
    /\ pc[p] = "requireAnyRole_find"
    /\ GateAnswer(p, "requireAnyRole",
                  requireAnyRoleCheck(users, loc[p].uid, loc[p].arg),
                  "500 Role authorization check failed")

(* --------------------------- specifications --------------------------- *)

\* The store once u1, an account without two-factor, has logged in at time 0:
\* refresh token 1 is its session.
InitLoggedIn ==
    /\ now = 0
    /\ users = [u \in UserIds |->
                   [mkUser(u, [twoFactorEnabled |-> FALSE, twoFactorSecret |-> NoSecret,
                            backupCodes |-> {}])
                    EXCEPT !.lastLoginAt = IF u = "u1" THEN 0 ELSE 0 - 1]]
    /\ refreshTokens = createRefreshToken(<< >>, 1, "u1", RefreshTTL)
    /\ blacklist = << >>
    /\ nextToken = 2
    /\ pc = [p \in Procs |-> "idle"]
    /\ loc = [p \in Procs |-> NoLoc]
    /\ reply = [proc |-> "p1", op |-> "login", out |-> "ok", rt |-> NoToken]
    /\ rotated = [t \in TokenIds |-> {}]
    /\ refreshRevoked = {}
    /\ loggedOut = {}
    /\ logoutDone = {}
    /\ setupSecret = [u \in UserIds |-> NoSecret]
    /\ logoutRevoked = {}
    /\ rolePermissions = [r \in RoleNames |-> {}]
    /\ gateSeen = NoGate
    /\ jwt = NoJwt
    /\ verified = NoVerified
    /\ password = NoPassword
    /\ validation = NoValidation
    /\ request = NoRequest
    /\ circuitState = "CLOSED"
    /\ failureCount = 0
    /\ lastFailureTime = 0
    /\ calls = [p \in Procs |-> NoCall]
    /\ response = NoResponse
    /\ streak = 0
    /\ env = NoEnv
    /\ configs = NoConfigs
    /\ services = {}

\* The refresh-token protocol: concurrent refreshes rotate the session's chain.
NextRefresh ==
    \/ Tick
    \/ \E p \in Procs, R \in TokenIds : RefreshFind(p, R)
    \/ \E p \in Procs : RefreshUser(p)
    \/ \E p \in Procs : RefreshRevoke(p)
    \/ \E p \in Procs : RefreshCreate(p)
    \/ \E p \in Procs : StoreError(p)
    \/ CleanupRefreshTokens

SpecRefresh == InitLoggedIn /\ [][NextRefresh]_vars

\* Access tokens: revoked by logout, checked by authenticate.
NextSession ==
    \/ Tick
    \/ \E p \in Procs, T \in SignedTokens(now), R \in TokenIds : LogoutBlacklist(p, T, R)
    \/ \E p \in Procs : LogoutRevoke(p)
    \/ \E p \in Procs, T \in SignedTokens(now) : AuthStart(p, T)
    \/ \E p \in Procs : AuthBlacklist(p)
    \/ \E p \in Procs : AuthBlacklistFails(p)
    \/ \E p \in Procs : AuthUser(p)
    \/ CleanupBlacklist

SpecSession == InitLoggedIn /\ [][NextSession]_vars

\* Login against accounts in every two-factor state, one request at a time.
LoginProcs == {"p1"}

NextLogin ==
    \/ Tick
    \/ \E p \in LoginProcs, e \in Emails, pw \in Passwords, c \in Codes \cup {NoCode} :
          LoginFind(p, e, pw, c)
    \/ \E p \in LoginProcs : LoginCreate(p)
    \/ \E p \in LoginProcs : LoginLast(p)
    \/ \E p \in LoginProcs : StoreError(p)

SpecLogin == Init /\ [][NextLogin]_vars

\* Two-factor: setup / enable / disable.
NextTwoFactor ==
    \/ Tick
    \/ \E p \in Procs, u \in UserIds, pw \in Passwords, s \in Secrets :
          SetupTwoFactor(p, u, pw, s)
    \/ \E p \in Procs, u \in UserIds, pw \in Passwords, c \in Codes \cup {NoCode} :
          EnableFind(p, u, pw, c)
    \/ \E p \in Procs : EnableUpdate(p)
    \/ \E p \in Procs, u \in UserIds, pw \in Passwords : DisableFind(p, u, pw)
    \/ \E p \in Procs : DisableUpdate(p)
    \/ \E p \in Procs : StoreError(p)

SpecTwoFactor == Init /\ [][NextTwoFactor]_vars

\* Accounts that are deactivated or deleted while tokens are outstanding, and
\* the calls whose answer depends on the account: login (without a second
\* factor), authenticate, refreshToken, password reset request.
NextAccount ==
    \/ \E u \in UserIds : Deactivate(u)
    \/ \E u \in UserIds : DeleteUser(u)
    \/ \E p \in LoginProcs, e \in Emails, pw \in Passwords : LoginFind(p, e, pw, NoCode)
    \/ \E p \in LoginProcs : LoginCreate(p)
    \/ \E p \in LoginProcs : LoginLast(p)
    \/ \E p \in Procs, T \in SignedTokens(now) : AuthStart(p, T)
    \/ \E p \in Procs : AuthBlacklist(p)
    \/ \E p \in Procs : AuthUser(p)
    \/ \E p \in Procs, R \in TokenIds : RefreshFind(p, R)
    \/ \E p \in Procs : RefreshUser(p)
    \/ \E p \in Procs : RefreshRevoke(p)
    \/ \E p \in Procs : RefreshCreate(p)
    \/ \E p \in Procs, e \in Emails : RequestPasswordReset(p, e)
    \/ \E p \in Procs : StoreError(p)

SpecAccount == InitLoggedIn /\ [][NextAccount]_vars

\* Registration: concurrent calls for taken and free emails and usernames.
NextRegister ==
    \/ Tick
    \/ \E p \in Procs, e \in RegEmails, n \in RegNames, pw \in RegPasswords :
          RegisterFind(p, e, n, pw)
    \/ \E p \in Procs : RegisterUsername(p)
    \/ \E p \in Procs : RegisterCreate(p)
    \/ \E p \in Procs : RegisterToken(p)
    \/ \E p \in Procs : StoreError(p)

SpecRegister == Init /\ [][NextRegister]_vars

\* Several devices of one account: logins open sessions next to the one that
\* exists, each session is refreshed or logged out on its own.
NextDevices ==
    \/ \E p \in LoginProcs, pw \in Passwords : LoginFind(p, "u1", pw, NoCode)
    \/ \E p \in LoginProcs : LoginCreate(p)
    \/ \E p \in LoginProcs : LoginLast(p)
    \/ \E p \in Procs, R \in TokenIds : RefreshFind(p, R)
    \/ \E p \in Procs : RefreshUser(p)
    \/ \E p \in Procs : RefreshRevoke(p)
    \/ \E p \in Procs : RefreshCreate(p)
    \/ \E p \in Procs, R \in TokenIds : LogoutBlacklist(p, generateAccessToken("u1", 0), R)
    \/ \E p \in Procs : LogoutRevoke(p)
    \/ \E p \in Procs : StoreError(p)

SpecDevices == InitLoggedIn /\ [][NextDevices]_vars

\* refreshToken against tokens that expire and are cleaned up and an owner that
\* is deactivated or deleted.
NextRejected ==
    \/ Tick
    \/ Deactivate("u1")
    \/ DeleteUser("u1")
    \/ \E p \in Procs, R \in TokenIds : RefreshFind(p, R)
    \/ \E p \in Procs : RefreshUser(p)
    \/ \E p \in Procs : RefreshRevoke(p)
    \/ \E p \in Procs : RefreshCreate(p)
    \/ \E p \in Procs : StoreError(p)
    \/ CleanupRefreshTokens

SpecRejected == InitLoggedIn /\ [][NextRejected]_vars

\* An account in any two-factor state with one session, whose password and
\* two-factor settings are changed while the session is refreshed.
InitCredential ==
    /\ now = 0
    /\ \E tf \in TwoFactorStates :
          users = [u \in UserIds |->
                      IF u = "u1" THEN mkUser(u, tf)
                      ELSE mkUser(u, [twoFactorEnabled |-> FALSE, twoFactorSecret |-> NoSecret,
                                   backupCodes |-> {}])]
    /\ refreshTokens = createRefreshToken(<< >>, 1, "u1", RefreshTTL)
    /\ blacklist = << >>
    /\ nextToken = 2
    /\ pc = [p \in Procs |-> "idle"]
    /\ loc = [p \in Procs |-> NoLoc]
    /\ reply = NoReply
    /\ rotated = [t \in TokenIds |-> {}]
    /\ refreshRevoked = {}
    /\ loggedOut = {}
    /\ logoutDone = {}
    /\ setupSecret = [u \in UserIds |-> NoSecret]
    /\ logoutRevoked = {}
    /\ rolePermissions = [r \in RoleNames |-> {}]
    /\ gateSeen = NoGate
    /\ jwt = NoJwt
    /\ verified = NoVerified
    /\ password = NoPassword
    /\ validation = NoValidation
    /\ request = NoRequest
    /\ circuitState = "CLOSED"
    /\ failureCount = 0
    /\ lastFailureTime = 0
    /\ calls = [p \in Procs |-> NoCall]
    /\ response = NoResponse
    /\ streak = 0
    /\ env = NoEnv
    /\ configs = NoConfigs
    /\ services = {}

\* The caller that changes credentials and the one that refreshes the session.
CredentialProcs == {"p1"}

SessionProcs == {"p2"}

NextCredential ==
    \/ \E p \in CredentialProcs, u \in {"u1", NoIdentity}, b \in ChangeBodies :
          ChangePasswordFind(p, u, b.cur, b.new, b.confirm)
    \/ \E p \in CredentialProcs : ChangePasswordUpdate(p)
    \/ \E p \in CredentialProcs, pw \in Passwords, s \in Secrets :
          SetupTwoFactor(p, "u1", pw, s)
    \/ \E p \in CredentialProcs, pw \in Passwords, c \in Codes \cup {NoCode} :
          EnableFind(p, "u1", pw, c)
    \/ \E p \in CredentialProcs : EnableUpdate(p)
    \/ \E p \in CredentialProcs, pw \in Passwords : DisableFind(p, "u1", pw)
    \/ \E p \in CredentialProcs : DisableUpdate(p)
    \/ \E p \in SessionProcs, R \in TokenIds : RefreshFind(p, R)
    \/ \E p \in SessionProcs : RefreshUser(p)
    \/ \E p \in SessionProcs : RefreshRevoke(p)
    \/ \E p \in SessionProcs : RefreshCreate(p)
    \/ \E p \in Procs : StoreError(p)

SpecCredential == InitCredential /\ [][NextCredential]_vars

\* Authorization of the requests of u1 while roles are reassigned, permissions
\* granted and the account deleted.
GateProcs == {"p1"}

AdminProcs == {"p2"}

\* req.user as authenticate leaves it: nothing, or u1 with the roleId it had
\* when authenticate read the account.
Identities ==
    {[id |-> NoIdentity, roleId |-> NoRole]} \cup [id : {"u1"}, roleId : RoleNames]

NextAuthorize ==
    \/ \E r \in RoleNames, perm \in PermissionNames : GrantPermission(r, perm)
    \/ \E p \in AdminProcs, r \in RoleNames : UpdateRole(p, "u1", r)
    \/ \E p \in AdminProcs : UpdateRoleDelete(p)
    \/ \E p \in AdminProcs : UpdateRoleCreate(p)
    \/ DeleteUser("u1")
    \/ \E p \in GateProcs, i \in Identities,
          perm \in PermissionNames : AuthorizeStart(p, i.id, i.roleId, perm)
    \/ \E p \in GateProcs : AuthorizeFind(p)
    \/ \E p \in GateProcs, i \in Identities,
          r \in AskedRoles : RequireRoleStart(p, i.id, i.roleId, r)
    \/ \E p \in GateProcs : RequireRoleFind(p)
    \/ \E p \in GateProcs, i \in Identities,
          roles \in AskedRoleSets : RequireAnyRoleStart(p, i.id, i.roleId, roles)
    \/ \E p \in GateProcs : RequireAnyRoleFind(p)
    \/ \E p \in AdminProcs : StoreError(p)

SpecAuthorize == InitLoggedIn /\ [][NextAuthorize]_vars

\* POST /logout: AuthMiddleware.authenticate has let the request through (the
\* access token is signed, unexpired and not blacklisted, its account is
\* live), then AuthController.logout hands the header's access token and the
\* body's refreshToken to AuthService.logout.
LogoutController(p, T, R) ==
    /\ authCheck(blacklist, T, now) = "ok"
    /\ accountLive(users, T.sub)
    /\ LogoutBlacklist(p, T, R)

\* Two accounts, each logged in with a session of its own.
InitTwoAccounts ==
    /\ now = 0
    /\ users = [u \in UserIds |->
                   mkUser(u, [twoFactorEnabled |-> FALSE, twoFactorSecret |-> NoSecret,
                              backupCodes |-> {}])]
    /\ refreshTokens = createRefreshToken(createRefreshToken(<< >>, 1, "u1", RefreshTTL),
                                          2, "u2", RefreshTTL)
    /\ blacklist = << >>
    /\ nextToken = 3
    /\ pc = [p \in Procs |-> "idle"]
    /\ loc = [p \in Procs |-> NoLoc]
    /\ reply = [proc |-> "p1", op |-> "login", out |-> "ok", rt |-> NoToken]
    /\ rotated = [t \in TokenIds |-> {}]
    /\ refreshRevoked = {}
    /\ loggedOut = {}
    /\ logoutDone = {}
    /\ setupSecret = [u \in UserIds |-> NoSecret]
    /\ logoutRevoked = {}
    /\ rolePermissions = [r \in RoleNames |-> {}]
    /\ gateSeen = NoGate
    /\ jwt = NoJwt
    /\ verified = NoVerified
    /\ password = NoPassword
    /\ validation = NoValidation
    /\ request = NoRequest
    /\ circuitState = "CLOSED"
    /\ failureCount = 0
    /\ lastFailureTime = 0
    /\ calls = [p \in Procs |-> NoCall]
    /\ response = NoResponse
    /\ streak = 0
    /\ env = NoEnv
    /\ configs = NoConfigs
    /\ services = {}

\* The sessions of two accounts, logged out through the route.
NextOwnership ==
    \/ Tick
    \/ \E p \in Procs, u \in {"u1", "u2"}, R \in {1, 2} :
          LogoutController(p, generateAccessToken(u, 0), R)
    \/ \E p \in Procs : LogoutRevoke(p)
    \/ CleanupBlacklist

SpecOwnership == InitTwoAccounts /\ [][NextOwnership]_vars

(* -------------------------------- JwtUtils ---------------------------- *)

\* The claims generateAccessToken is given: Omit<JwtPayload, 'iat'|'exp'|'type'>.
JwtClaims ==
    {[sub |-> u, email |-> u, username |-> u, roleId |-> r] :
        u \in UserIds, r \in RoleNames}

\* jwt.sign(payload, secret, HS256): the payload in clear and an HMAC that
\* only the holder of the secret can compute over exactly this payload.
jwtSign(payload, secret) == [payload |-> payload, sig |-> <<secret, payload>>]

\* JwtUtils.generateAccessToken at instant t.
JwtGenerateAccessToken(C, t) ==
    jwtSign([sub |-> C.sub, email |-> C.email, username |-> C.username,
             roleId |-> C.roleId, type |-> "access", iat |-> t, exp |-> t + AccessTTL],
            "ACCESS_TOKEN_SECRET")

\* JwtUtils.generateRefreshToken at instant t.
JwtGenerateRefreshToken(C, t) ==
    jwtSign([sub |-> C.sub, email |-> C.email, username |-> C.username,
             roleId |-> C.roleId, type |-> "refresh", iat |-> t, exp |-> t + RefreshTTL],
            "REFRESH_TOKEN_SECRET")

\* jwt.verify(token, secret) at instant t: the signature is the secret's over
\* this payload, and the clock has not reached exp.
jwtVerify(tok, secret, t) == tok.sig = <<secret, tok.payload>> /\ t < tok.payload.exp

\* Mutant: a token is still accepted at the instant it expires.
JwtVerifyAccessTokenLate(tok, t) ==
    IF tok.sig = <<"ACCESS_TOKEN_SECRET", tok.payload>> /\ t <= tok.payload.exp
    THEN [token |-> tok, at |-> t, ok |-> TRUE, payload |-> tok.payload, error |-> "none"]
    ELSE [token |-> tok, at |-> t, ok |-> FALSE, payload |-> NoPayload,
          error |-> "Invalid access token"]

\* JwtUtils.verifyAccessToken at instant t: the payload, or whatever jwt.verify
\* threw rethrown as 'Invalid access token'.
JwtVerifyAccessToken(tok, t) ==
    IF jwtVerify(tok, "ACCESS_TOKEN_SECRET", t)
    THEN [token |-> tok, at |-> t, ok |-> TRUE, payload |-> tok.payload, error |-> "none"]
    ELSE [token |-> tok, at |-> t, ok |-> FALSE, payload |-> NoPayload,
          error |-> "Invalid access token"]

\* A caller has an access token issued.
JwtIssueAccess(C) ==
    /\ now <= MaxIssue
    /\ jwt' = JwtGenerateAccessToken(C, now)
    /\ UNCHANGED <<coreVars, verified, passwordVars, request, circuitVars, managerVars>>

\* A caller has a refresh token issued.
JwtIssueRefresh(C) ==
    /\ now <= MaxIssue
    /\ jwt' = JwtGenerateRefreshToken(C, now)
    /\ UNCHANGED <<coreVars, verified, passwordVars, request, circuitVars, managerVars>>

\* The holder rewrites the payload of the token (another role, a later expiry)
\* and keeps its signature: it does not have the secret.
JwtTamper(r, e) ==
    /\ jwt # NoJwt
    /\ jwt' = [jwt EXCEPT !.payload.roleId = r, !.payload.exp = e]
    /\ jwt' # jwt
    /\ UNCHANGED <<coreVars, verified, passwordVars, request, circuitVars, managerVars>>

\* The token at hand is given to verifyAccessToken.
JwtVerify ==
    /\ jwt # NoJwt
    /\ verified' = JwtVerifyAccessToken(jwt, now)
    /\ UNCHANGED <<coreVars, jwt, passwordVars, request, circuitVars, managerVars>>

\* Tokens are issued, altered and verified as time passes.
NextJwt ==
    \/ Tick
    \/ \E C \in JwtClaims : JwtIssueAccess(C)
    \/ \E C \in JwtClaims : JwtIssueRefresh(C)
    \/ \E r \in RoleNames, e \in {jwt.payload.exp, MaxTime + 1} : JwtTamper(r, e)
    \/ JwtVerify

SpecJwt == Init /\ [][NextJwt]_vars

(* ------------------------------ PasswordUtils ------------------------- *)

\* password.length < 8 is too short.
MinPasswordLength == 8

\* password.length > 128 is too long.
MaxPasswordLength == 128

\* What validatePassword looks at in a character: the character classes of its
\* four regular expressions, and everything else ("-", "_", a space, a letter
\* outside a-z and A-Z).
CharKinds == {"lower", "upper", "digit", "special", "other"}

PasswordLengths ==
    {0, 1, MinPasswordLength - 1, MinPasswordLength, MaxPasswordLength,
     MaxPasswordLength + 1}

\* A password as validatePassword sees it: its length and the kinds of
\* character in it.
PasswordInputs ==
    {[len |-> n, has |-> k] : n \in PasswordLengths, k \in SUBSET CharKinds}

\* The messages in the order validatePassword tests their rules.
PasswordMessages ==
    <<"Password must be at least 8 characters long",
      "Password must be less than 128 characters long",
      "Password must contain at least one lowercase letter",
      "Password must contain at least one uppercase letter",
      "Password must contain at least one number",
      "Password must contain at least one special character">>

\* Mutant: a password of exactly eight characters is too short.
passwordRuleBrokenOffByOne(pw, i) ==
    CASE i = 1 -> pw.len <= MinPasswordLength
      [] i = 2 -> pw.len > MaxPasswordLength
      [] i = 3 -> "lower" \notin pw.has
      [] i = 4 -> "upper" \notin pw.has
      [] i = 5 -> "digit" \notin pw.has
      [] i = 6 -> "special" \notin pw.has

\* The i-th if of validatePassword.
passwordRuleBroken(pw, i) ==
    CASE i = 1 -> pw.len < MinPasswordLength
      [] i = 2 -> pw.len > MaxPasswordLength
      [] i = 3 -> "lower" \notin pw.has
      [] i = 4 -> "upper" \notin pw.has
      [] i = 5 -> "digit" \notin pw.has
      [] i = 6 -> "special" \notin pw.has

\* PasswordUtils.validatePassword: the errors pushed in order, isValid when
\* there is none.
validatePasswordResult(pw) ==
    LET Broken(i) == passwordRuleBroken(pw, i)
        broken == SelectSeq(<<1, 2, 3, 4, 5, 6>>, Broken)
        errors == [j \in 1..Len(broken) |-> PasswordMessages[broken[j]]]
    IN [password |-> pw, isValid |-> Len(errors) = 0, errors |-> errors]

\* A caller picks a password: a string has at least one character of each
\* kind it contains.
ChoosePassword(pw) ==
    /\ Cardinality(pw.has) <= pw.len
    /\ (pw.len = 0) = (pw.has = {})
    /\ password' = pw
    /\ UNCHANGED <<coreVars, jwtVars, validation, request, circuitVars, managerVars>>

\* PasswordUtils.validatePassword(password)
ValidatePassword ==
    /\ validation' = validatePasswordResult(password)
    /\ UNCHANGED <<coreVars, jwtVars, password, request, circuitVars, managerVars>>

\* Passwords are picked and validated.
NextPassword ==
    \/ \E pw \in PasswordInputs : ChoosePassword(pw)
    \/ ValidatePassword

SpecPassword == InitLoggedIn /\ [][NextPassword]_vars

(* ---------------------- AuthMiddleware.optionalAuth ------------------- *)

\* Mutant: verifyAccessToken returns a promise, so the chain optionalAuth
\* hangs on it runs: a verified access token of a live account gets its
\* identity attached, everything else goes on without one.
optionalAuthChained(us, header, T, t) ==
    IF ~header THEN [user |-> NoIdentity, nexts |-> 1, thrown |-> "none"]
    ELSE IF accessExpired(T, t) THEN [user |-> NoIdentity, nexts |-> 1, thrown |-> "none"]
    ELSE IF T.type = "access" /\ accountLive(us, T.sub)
         THEN [user |-> T.sub, nexts |-> 1, thrown |-> "none"]
    ELSE [user |-> NoIdentity, nexts |-> 1, thrown |-> "none"]

\* AuthMiddleware.optionalAuth on a request at instant t.  Without a Bearer
\* header it calls next().  With one it calls JwtUtils.verifyAccessToken, which
\* is synchronous: for a token that does not verify it throws 'Invalid access
\* token' out of optionalAuth, for one that verifies it returns the payload, an
\* object without a then method, and the call of .then on it throws a
\* TypeError out of optionalAuth.  Neither .then nor .catch is ever attached.
optionalAuth(us, header, T, t) ==
    IF ~header THEN [user |-> NoIdentity, nexts |-> 1, thrown |-> "none"]
    ELSE IF accessExpired(T, t)
         THEN [user |-> NoIdentity, nexts |-> 0, thrown |-> "Invalid access token"]
    ELSE [user |-> NoIdentity, nexts |-> 0, thrown |-> "TypeError"]

\* A request passes through optionalAuth, with or without a Bearer token.
\* request.blacklisted records whether the token was blacklisted at that
\* instant (optionalAuth itself does not look).
OptionalAuth(header, T) ==
    /\ header \/ T = NoAccess
    /\ LET res == optionalAuth(users, header, T, now)
       IN request' = [header |-> header, token |-> T,
                      blacklisted |-> isBlacklisted(blacklist, T, now),
                      user |-> res.user, nexts |-> res.nexts, thrown |-> res.thrown]
    /\ UNCHANGED <<coreVars, jwtVars, passwordVars, circuitVars, managerVars>>

\* Requests through optionalAuth while sessions are logged out, tokens expire
\* and the account is deactivated.
NextOptional ==
    \/ Tick
    \/ \E p \in SessionProcs, T \in SignedTokens(now) : LogoutBlacklist(p, T, 1)
    \/ \E p \in SessionProcs : LogoutRevoke(p)
    \/ CleanupBlacklist
    \/ Deactivate("u1")
    \/ OptionalAuth(FALSE, NoAccess)
    \/ \E T \in SignedTokens(now) : OptionalAuth(TRUE, T)

SpecOptional == InitLoggedIn /\ [][NextOptional]_vars

(* ---------------------- BaseService.executeWithRetry ------------------ *)

\* retryConfig.maxAttempts: config.retryAttempts || 3
MaxAttempts == 3

\* circuitBreakerConfig.failureThreshold
FailureThreshold == 5

\* circuitBreakerConfig.recoveryTimeout (60000 ms), in ticks of the clock
RecoveryTimeout == 2

\* What getErrorCode makes of the errors an operation throws: one code of
\* retryConfig.retryableErrors, one outside it.
ErrorCodes == {"TIMEOUT", "CLIENT_ERROR"}

\* isRetryableError
isRetryableError(code) == code \in {"TIMEOUT", "NETWORK_ERROR", "RATE_LIMIT", "SERVER_ERROR"}

\* executeWithRetry returns: the call is over.
Respond(p, success, code, attempts, invoked) ==
    /\ response' = [proc |-> p, success |-> success, code |-> code,
                    attempts |-> attempts, invoked |-> invoked]
    /\ calls' = [calls EXCEPT ![p] = NoCall]

\* operation() is called: the call waits for it.
Invoke(p, attempts, invoked, lastError, trial) ==
    /\ calls' = [calls EXCEPT ![p] = [pc |-> "operation", attempts |-> attempts,
                                      invoked |-> invoked + 1, lastError |-> lastError,
                                      trial |-> trial]]
    /\ UNCHANGED response

\* Mutant: the breaker lets calls through while it is OPEN.
LoopHeadNoBreaker(p, attempts, invoked, lastError) ==
    IF attempts >= MaxAttempts
    THEN /\ Respond(p, FALSE, lastError, attempts, invoked)
         /\ UNCHANGED circuitState
    ELSE /\ Invoke(p, attempts, invoked, lastError, FALSE)
         /\ UNCHANGED circuitState

\* The head of the for loop with `attempts` as it stands, and the circuit
\* breaker check that opens the try block (lines 66-87): leave the loop, answer
\* CIRCUIT_BREAKER_OPEN, or call the operation (after moving an OPEN circuit
\* whose recovery timeout has passed to HALF_OPEN).
LoopHead(p, attempts, invoked, lastError) ==
    IF attempts >= MaxAttempts
    THEN /\ Respond(p, FALSE, lastError, attempts, invoked)
         /\ UNCHANGED circuitState
    ELSE IF circuitState = "OPEN"
         THEN IF now - lastFailureTime < RecoveryTimeout
              THEN /\ Respond(p, FALSE, "CIRCUIT_BREAKER_OPEN", attempts, invoked)
                   /\ UNCHANGED circuitState
              ELSE /\ circuitState' = "HALF_OPEN"
                   /\ Invoke(p, attempts, invoked, lastError, TRUE)
    ELSE /\ Invoke(p, attempts, invoked, lastError, FALSE)
         /\ UNCHANGED circuitState

\* executeWithRetry is called: attempts = 0 and the first pass of the loop up
\* to its await.
ExecStart(p) ==
    /\ calls[p].pc = "idle"
    /\ LoopHead(p, 0, 0, NoError)
    /\ UNCHANGED <<coreVars, jwtVars, passwordVars, request, managerVars,
                   failureCount, lastFailureTime, streak>>

\* await operation() resolves (lines 89-116): a HALF_OPEN circuit is closed and
\* the failure count reset; success is returned with attempts + 1.
ExecSucceed(p) ==
    /\ calls[p].pc = "operation"
    /\ IF circuitState = "HALF_OPEN"
       THEN /\ circuitState' = "CLOSED"
            /\ failureCount' = 0
       ELSE UNCHANGED <<circuitState, failureCount>>
    /\ Respond(p, TRUE, NoError, calls[p].attempts + 1, calls[p].invoked)
    /\ streak' = 0
    /\ UNCHANGED <<coreVars, jwtVars, passwordVars, request, managerVars,
                   lastFailureTime>>

\* await operation() rejects with an error of code `code` (lines 117-156):
\* attempts++, failureCount++, the circuit opens at the threshold; the failure
\* is returned if the error is not retryable or attempts has reached
\* maxAttempts, otherwise the call sleeps.
ExecFail(p, code) ==
    /\ calls[p].pc = "operation"
    /\ LET attempts == calls[p].attempts + 1
       IN /\ failureCount' = failureCount + 1
          /\ IF failureCount + 1 >= FailureThreshold
             THEN /\ circuitState' = "OPEN"
                  /\ lastFailureTime' = now
             ELSE UNCHANGED <<circuitState, lastFailureTime>>
          /\ IF ~isRetryableError(code) \/ attempts = MaxAttempts
             THEN Respond(p, FALSE, code, attempts, calls[p].invoked)
             ELSE /\ calls' = [calls EXCEPT ![p].pc = "sleep", ![p].attempts = attempts,
                                            ![p].lastError = code]
                  /\ UNCHANGED response
    /\ streak' = streak + 1
    /\ UNCHANGED <<coreVars, jwtVars, passwordVars, request, managerVars>>

\* await this.sleep(delay) resolves: the loop's attempts++ and the next pass
\* up to its await.
ExecWake(p) ==
    /\ calls[p].pc = "sleep"
    /\ LoopHead(p, calls[p].attempts + 1, calls[p].invoked, calls[p].lastError)
    /\ UNCHANGED <<coreVars, jwtVars, passwordVars, request, managerVars,
                   failureCount, lastFailureTime, streak>>

\* One service instance, called by concurrent requests, whose operation
\* succeeds or fails as it pleases.
NextCircuit ==
    \/ Tick
    \/ \E p \in Procs : ExecStart(p)
    \/ \E p \in Procs : ExecSucceed(p)
    \/ \E p \in Procs, code \in ErrorCodes : ExecFail(p, code)
    \/ \E p \in Procs : ExecWake(p)

SpecCircuit == InitLoggedIn /\ [][NextCircuit]_vars

(* --------------- ServiceConfigManager and ServiceManager -------------- *)

\* What <NAME>_SERVICE_ENABLED can be in the environment.
EnvFlags == {"true", "false", "unset"}

\* The services whose environment and switches are exercised.
ManagedServices == {"phone", "email"}

\* initializeServices creates the instances in this order.
ServiceOrder == <<"phone", "sms", "email", "fileStorage">>

\* ServiceConfigManager.loadConfigs: enabled is
\* process.env.<NAME>_SERVICE_ENABLED === 'true', the credentials are copied.
loadConfigs(e) ==
    [n \in ServiceNames |-> [enabled |-> e[n].enabled = "true",
                             credentials |-> e[n].credentials]]

\* ServiceConfigManager.updateConfig(name, {enabled})
updateConfig(cfg, n, enabled) == [cfg EXCEPT ![n].enabled = enabled]

\* ServiceConfigManager.isServiceEnabled
isServiceEnabled(cfg, n) == cfg[n].enabled

\* new TwilioPhoneService(config) and new TwilioSMSService(config) call
\* twilio(apiKey, apiSecret), which throws without credentials; the SendGrid
\* and S3 constructors take what they are given.
constructorThrows(cfg, n) == n \in {"phone", "sms"} /\ ~cfg[n].credentials

\* ServiceManager.initializeServices from the i-th service on: one try block
\* around all four, so a constructor that throws ends the initialization.
RECURSIVE initializeFrom(_, _, _)
initializeFrom(cfg, i, acc) ==
    IF i > Len(ServiceOrder) THEN acc
    ELSE LET n == ServiceOrder[i]
         IN IF ~isServiceEnabled(cfg, n) THEN initializeFrom(cfg, i + 1, acc)
            ELSE IF constructorThrows(cfg, n) THEN acc
            ELSE initializeFrom(cfg, i + 1, acc \cup {n})

\* ServiceManager.initializeServices on an empty registry.
initializeServices(cfg) == initializeFrom(cfg, 1, {})

\* ServiceManager.reinitializeServices: the registry is cleared, the configs
\* are reloaded from the environment, the services are created again.
Reinitialize ==
    /\ configs' = loadConfigs(env)
    /\ services' = initializeServices(loadConfigs(env))

\* The deployment sets a service's variables (the process environment or the
\* .env file that reloadConfigs reads again).
SetEnv(n, flag, credentials) ==
    /\ env' = [env EXCEPT ![n] = [enabled |-> flag, credentials |-> credentials]]
    /\ env' # env
    /\ UNCHANGED <<coreVars, jwtVars, passwordVars, request, circuitVars, configs,
                   services>>

\* ServiceConfigManager.enableService(name)
ConfigEnableService(n) ==
    /\ configs' = updateConfig(configs, n, TRUE)
    /\ configs' # configs
    /\ UNCHANGED <<coreVars, jwtVars, passwordVars, request, circuitVars, env, services>>

\* ServiceConfigManager.disableService(name)
ConfigDisableService(n) ==
    /\ configs' = updateConfig(configs, n, FALSE)
    /\ configs' # configs
    /\ UNCHANGED <<coreVars, jwtVars, passwordVars, request, circuitVars, env, services>>

\* ServiceManager.reinitializeServices()
ReinitializeServices ==
    /\ Reinitialize
    /\ UNCHANGED <<coreVars, jwtVars, passwordVars, request, circuitVars, env>>

\* ServiceManager.enableService(name): configManager.enableService(name), then
\* reinitializeServices(), whose reloadConfigs replaces the configs just
\* updated.
EnableService(n) ==
    /\ n \in DOMAIN updateConfig(configs, n, TRUE)
    /\ Reinitialize
    /\ UNCHANGED <<coreVars, jwtVars, passwordVars, request, circuitVars, env>>

\* ServiceManager.disableService(name): configManager.disableService(name),
\* then reinitializeServices(), whose reloadConfigs replaces the configs just
\* updated.
DisableService(n) ==
    /\ n \in DOMAIN updateConfig(configs, n, FALSE)
    /\ Reinitialize
    /\ UNCHANGED <<coreVars, jwtVars, passwordVars, request, circuitVars, env>>

\* The services are switched on and off while the deployment's environment
\* changes.
NextServices ==
    \/ \E n \in ManagedServices, flag \in EnvFlags, credentials \in BOOLEAN :
          SetEnv(n, flag, credentials)
    \/ \E n \in ManagedServices : ConfigEnableService(n)
    \/ \E n \in ManagedServices : ConfigDisableService(n)
    \/ ReinitializeServices
    \/ \E n \in ManagedServices : EnableService(n)
    \/ \E n \in ManagedServices : DisableService(n)

SpecServices == InitLoggedIn /\ [][NextServices]_vars

\* Everything together.
Next == NextRefresh \/ NextSession \/ NextLogin \/ NextTwoFactor \/ NextAccount
        \/ NextRegister \/ NextDevices \/ NextRejected \/ NextCredential
        \/ NextAuthorize \/ NextOwnership
        \/ NextJwt \/ NextPassword \/ NextOptional
        \/ NextCircuit \/ NextServices

Spec == Init /\ [][Next]_vars

(* ------------------------- refresh-token rotation --------------------- *)

\* C1: once refreshToken(R) has stored a successor for R, every refreshToken(R)
\* call that starts afterwards is answered 'Invalid refresh token' at its first
\* check and writes nothing; and the successor a rotation stores is itself
\* accepted by refreshToken's checks at that moment.
C1_RotatedTokenRejected ==
    [][ /\ \A p \in Procs, R \in TokenIds :
              (RefreshFind(p, R) /\ rotated[R] # {}) =>
                  /\ pc'[p] = "idle"
                  /\ reply' = [proc |-> p, op |-> "refresh",
                               out |-> "Invalid refresh token", rt |-> R]
                  /\ refreshTokens' = refreshTokens
                  /\ nextToken' = nextToken
        /\ \A p \in Procs :
              RefreshCreate(p) =>
                  /\ loc[p].rt \in refreshRevoked
                  /\ loc[p].nrt \in DOMAIN refreshTokens'
                  /\ ~refreshTokens'[loc[p].nrt].isRevoked
                  /\ ~(refreshTokens'[loc[p].nrt].expiresAt < now)
      ]_vars

\* C1 witness: token 1 was rotated and a later refreshToken(1) was turned away.
C1_Witness ==
    /\ rotated[1] # {}
    /\ reply.op = "refresh"
    /\ reply.rt = 1
    /\ reply.out = "Invalid refresh token"

\* C2: a refresh token never gets two successors, however two refreshToken
\* calls on it interleave.
C2_SingleSuccessor ==
    \A R \in TokenIds :
        Cardinality({t \in rotated[R] : t \in DOMAIN refreshTokens /\ ~refreshTokens[t].isRevoked}) <= 1

\* C3: no state has a token revoked by refreshToken while no replacement for it
\* is stored.
C3_RotationAtomic ==
    \A R \in refreshRevoked : rotated[R] # {}

(* --------------------------- logout / blacklist ----------------------- *)

\* T is unusable at time t: blacklisted, or past its own expiry.
Unusable(T, t) == isBlacklisted(blacklist, T, t) \/ t >= T.exp

\* C4 as claimed: once logout(T, R) has returned, T is blacklisted or expired
\* at every instant.
C4_LogoutAlwaysRevokes ==
    \A T \in logoutDone : Unusable(T, now)

\* C4 as amended: once logout has stored the blacklist entry for T, T is
\* blacklisted or expired at every instant, and every authenticate call that
\* starts afterwards answers 401 at its first check (revoked while T is
\* unexpired, expired afterwards) without reaching next().
C4_StoredLogoutRevokes ==
    /\ [](\A T \in loggedOut : Unusable(T, now))
    /\ [][ \A p \in Procs :
              ((AuthBlacklist(p) \/ AuthBlacklistFails(p)) /\ loc[p].at \in loggedOut) =>
                  /\ pc'[p] = "idle"
                  /\ reply'.op = "authenticate"
                  /\ reply'.out \in {"401 Token has been revoked",
                                     "401 Invalid or expired token"}
                  /\ (now >= loc[p].at.exp => reply'.out = "401 Invalid or expired token")
         ]_vars

\* C4 witness: a logged-out, still unexpired token was presented and refused.
C4_Witness ==
    /\ reply.op = "authenticate"
    /\ reply.out = "401 Token has been revoked"
    /\ \E T \in loggedOut : now < T.exp

\* C5 as claimed: whatever token logout blacklists is blacklisted right after.
C5_BlacklistedRightAfter ==
    [][ \A p \in Procs, T \in SignedTokens(now), R \in TokenIds :
           (LogoutBlacklist(p, T, R) /\ T \notin loggedOut /\ T \in loggedOut') =>
               isBlacklisted(blacklist', T, now)
      ]_vars

\* C5 as amended: a token that logout blacklists while it is unexpired is
\* blacklisted right after, and no token is blacklisted once its expiry has
\* passed, whether or not its entry is still stored.
C5_BlacklistedUntilExpiry ==
    /\ [][ \A p \in Procs, T \in SignedTokens(now), R \in TokenIds :
              (LogoutBlacklist(p, T, R) /\ T \notin loggedOut /\ T \in loggedOut'
                 /\ now < T.exp) =>
                  isBlacklisted(blacklist', T, now)
         ]_vars
    /\ [](\A T \in loggedOut : now >= T.exp => ~isBlacklisted(blacklist, T, now))

\* C5 witness: an entry is still stored for a token whose expiry has passed.
C5_Witness ==
    \E T \in loggedOut : T \in DOMAIN blacklist /\ now >= T.exp

(* ------------------------------ login with 2FA ------------------------ *)

\* The code is a one-time password of the secret for a time step at most two
\* steps away from t.
CodeFor(secret, code, t) ==
    \E d \in -2..2 : t + d \in Times /\ code = totpCode(secret, t + d)

\* C6: login with the correct password on an active account that has
\* twoFactorEnabled and a stored secret answers 'code required' without a
\* code, 'invalid code' for a code that is not one of the secret's, and goes
\* on to issue tokens for a code that is; the two failures store no refresh
\* token and leave every user row, backup codes included, as it was.
C6_LoginTwoFactorGate ==
    [][ \A p \in LoginProcs, u \in UserIds, pw \in Passwords, c \in Codes \cup {NoCode} :
           ( /\ users[u].isActive
             /\ users[u].twoFactorEnabled
             /\ users[u].twoFactorSecret # NoSecret
             /\ comparePassword(pw, users[u].password)
             /\ LoginFind(p, u, pw, c) ) =>
               IF c = NoCode
               THEN /\ pc'[p] = "idle"
                    /\ reply'.out = "Two-factor authentication code required"
                    /\ refreshTokens' = refreshTokens /\ nextToken' = nextToken
                    /\ users' = users
               ELSE IF ~CodeFor(users[u].twoFactorSecret, c, now)
               THEN /\ pc'[p] = "idle"
                    /\ reply'.out = "Invalid two-factor authentication code"
                    /\ refreshTokens' = refreshTokens /\ nextToken' = nextToken
                    /\ users' = users
               ELSE /\ pc'[p] = "login_create"
                    /\ loc'[p].uid = u
      ]_vars

\* C6 witness: a login on the two-factor account got past the password check
\* and was refused for its code.
C6_Witness ==
    /\ users["u1"].twoFactorEnabled
    /\ reply.op = "login"
    /\ reply.out = "Invalid two-factor authentication code"

(* ------------------------- two-factor state machine ------------------- *)

\* C7: no account has twoFactorEnabled with a null twoFactorSecret.
C7_EnabledHasSecret ==
    \A u \in UserIds :
        users[u].twoFactorEnabled => users[u].twoFactorSecret # NoSecret

\* C8: on a Disabled account for which setupTwoFactor has returned a secret,
\* enableTwoFactor with the correct password and a code valid for that secret
\* passes its checks and goes on to enable the account.
C8_SetupThenEnable ==
    [][ \A p \in Procs, u \in UserIds, pw \in Passwords, c \in Codes :
           ( /\ ~users[u].twoFactorEnabled
             /\ users[u].twoFactorSecret = NoSecret
             /\ setupSecret[u] # NoSecret
             /\ comparePassword(pw, users[u].password)
             /\ CodeFor(setupSecret[u], c, now)
             /\ EnableFind(p, u, pw, c) ) =>
               pc'[p] = "enable_update"
      ]_vars

\* C9: enableTwoFactor goes on to set the flag only when the password matches
\* and the code is one of the stored secret's; otherwise it fails and no user
\* row changes; and the flag is never raised except by that update.
C9_EnableNeedsBoth ==
    [][ /\ \A p \in Procs, u \in UserIds, pw \in Passwords, c \in Codes \cup {NoCode} :
              EnableFind(p, u, pw, c) =>
                  IF /\ comparePassword(pw, users[u].password)
                     /\ users[u].twoFactorSecret # NoSecret
                     /\ CodeFor(users[u].twoFactorSecret, c, now)
                  THEN pc'[p] = "enable_update" /\ users' = users
                  ELSE /\ pc'[p] = "idle"
                       /\ reply'.op = "enable" /\ reply'.out # "ok"
                       /\ users' = users
        /\ \A u \in UserIds :
              (~users[u].twoFactorEnabled /\ users'[u].twoFactorEnabled) =>
                  \E p \in Procs : EnableUpdate(p) /\ loc[p].uid = u
      ]_vars

\* C9 witness: an enableTwoFactor call has completed and the flag is set.
C9_Witness ==
    /\ reply.op = "enable"
    /\ reply.out = "ok"
    /\ \E u \in UserIds : users[u].twoFactorEnabled

\* The three two-factor fields of a row are all cleared.
TwoFactorCleared(row) ==
    /\ ~row.twoFactorEnabled
    /\ row.twoFactorSecret = NoSecret
    /\ row.backupCodes = {}

C16_BlacklistFailsClosed ==
    [][ \A p \in Procs :
           /\ AuthBlacklistFails(p) =>
                 /\ pc'[p] = "idle"
                 /\ reply'.op = "authenticate"
                 /\ reply'.out = "401 Invalid or expired token"
           /\ (pc[p] = "auth_blacklist" /\ pc'[p] = "auth_user") =>
                 /\ loc[p].at \in DOMAIN blacklist => blacklist[loc[p].at].expiresAt <= now
                 /\ loc'[p].at = loc[p].at
           /\ (reply' # reply /\ reply'.proc = p /\ reply'.out = "next") =>
                 pc[p] = "auth_user"
      ]_vars

\* C16 witness: at time 0, with nothing blacklisted and every token unexpired,
\* a request was refused because a store lookup failed.
C16_Witness ==
    /\ now = 0
    /\ blacklist = << >>
    /\ reply.op = "authenticate"
    /\ reply.out = "401 Invalid or expired token"

\* C17: authenticate issues no blacklist lookup for a token that fails the
\* expiry check.
C17_VerifyBeforeLookup ==
    [][ \A p \in Procs, T \in SignedTokens(now) :
           (AuthStart(p, T) /\ now >= T.exp) => pc'[p] # "auth_blacklist"
      ]_vars

\* C20: logout goes from the blacklist step to the revoke step whatever the
\* blacklist write did, and leaves the revoke step only by returning normally.
C20_LogoutCompletes ==
    [][ /\ \A p \in Procs, T \in SignedTokens(now), R \in TokenIds :
              LogoutBlacklist(p, T, R) =>
                  /\ pc'[p] = "logout_revoke"
                  /\ loc'[p].rt = R
                  /\ reply' = reply
        /\ \A p \in Procs :
              (LogoutRevoke(p) \/ (pc[p] = "logout_revoke" /\ pc'[p] # pc[p])) =>
                  /\ pc'[p] = "idle"
                  /\ reply'.proc = p
                  /\ reply'.op = "logout"
                  /\ reply'.out = "ok"
      ]_vars

\* C20 witness: a logout has returned although its blacklist write failed and
\* the refresh token it named was not in the store.
C20_Witness ==
    /\ reply.op = "logout"
    /\ reply.out = "ok"
    /\ ~hasRefreshToken(refreshTokens, reply.rt)
    /\ \E T \in logoutDone : T \notin loggedOut

(* ---------------------------- backup codes ---------------------------- *)

\* C11: login with the correct password and a backup code from the account's
\* stored list passes the second factor and removes that code from the list.
C11_BackupCodeConsumed ==
    [][ \A p \in LoginProcs, u \in UserIds, pw \in Passwords, b \in BackupCodeIds :
           ( /\ users[u].isActive
             /\ users[u].twoFactorEnabled
             /\ users[u].twoFactorSecret # NoSecret
             /\ comparePassword(pw, users[u].password)
             /\ b \in users[u].backupCodes
             /\ LoginFind(p, u, pw, [kind |-> "backup", val |-> b, step |-> 0]) ) =>
               /\ pc'[p] = "login_create"
               /\ b \notin users'[u].backupCodes
      ]_vars

(* ------------------------ accounts and their tokens ------------------- *)

\* C12: a login with a wrong password gets 'Invalid email or password' and
\* stores nothing, for an email no account has and for every account there is.
C12_WrongPasswordGeneric ==
    [][ \A p \in LoginProcs, e \in Emails, pw \in Passwords :
           ( /\ \A id \in findByEmail(users, e) : users[id].password # hashPassword(pw)
             /\ LoginFind(p, e, pw, NoCode) ) =>
               /\ pc'[p] = "idle"
               /\ reply'.out = "Invalid email or password"
      ]_vars

\* C13: the answer to a password reset request is the one an existing account
\* gets, whatever the email.
C13_ResetResponseUniform ==
    [][ \A p \in Procs, e \in Emails :
           RequestPasswordReset(p, e) =>
               reply'.out = "200 success: If this email exists, a reset link will be sent"
      ]_vars

\* C14: login with the correct password on an account whose isActive is false
\* answers 'Account is disabled' and writes nothing: no refresh token, no
\* token value drawn, no user row touched.
C14_InactiveLoginRefused ==
    [][ \A p \in LoginProcs, e \in Emails, pw \in Passwords :
           ( /\ \E id \in findByEmail(users, e) :
                    ~users[id].isActive /\ users[id].password = hashPassword(pw)
             /\ LoginFind(p, e, pw, NoCode) ) =>
               /\ pc'[p] = "idle"
               /\ reply'.op = "login"
               /\ reply'.out = "Account is disabled"
               /\ refreshTokens' = refreshTokens
               /\ nextToken' = nextToken
               /\ users' = users
      ]_vars

\* C14 witness: a login on a deactivated account has been refused as disabled.
C14_Witness ==
    /\ reply.op = "login"
    /\ reply.out = "Account is disabled"
    /\ \E u \in DOMAIN users : ~users[u].isActive

\* The row of the account is missing, or its isActive is false.
Dead(u) == u \notin DOMAIN users \/ ~users[u].isActive

\* C15: when authenticate's account lookup finds the account of the token
\* missing or inactive the request gets 401 and not next(); when
\* refreshToken's does, the call fails and stores nothing; and next() is only
\* ever answered for a token whose account is there and active at that lookup.
C15_DeadAccountRejected ==
    [][ \A p \in Procs :
           /\ (AuthUser(p) /\ Dead(loc[p].uid)) =>
                 /\ pc'[p] = "idle"
                 /\ reply'.out \in {"401 User not found or inactive",
                                    "401 Invalid or expired token"}
           /\ (RefreshUser(p) /\ Dead(loc[p].uid)) =>
                 /\ pc'[p] = "idle"
                 /\ reply'.out = "User not found or inactive"
                 /\ refreshTokens' = refreshTokens
                 /\ nextToken' = nextToken
           /\ (reply' # reply /\ reply'.proc = p /\ reply'.out = "next") =>
                 /\ pc[p] = "auth_user"
                 /\ ~Dead(loc[p].uid)
           /\ (pc[p] = "refresh_user" /\ pc'[p] = "refresh_revoke") =>
                 ~Dead(loc[p].uid)
      ]_vars

\* C15 witness: the account of the session is dead, its refresh token is still
\* stored unrevoked and unexpired, and a refreshToken call on it was refused
\* for the account.
C15_Witness ==
    /\ Dead("u1")
    /\ reply.op = "refresh"
    /\ reply.out = "User not found or inactive"
    /\ reply.rt \in DOMAIN refreshTokens
    /\ ~refreshTokens[reply.rt].isRevoked

(* ------------------------------ registration -------------------------- *)

\* Some account already has the email or the username.
Taken(email, name) ==
    \E id \in DOMAIN users : users[id].email = email \/ users[id].username = name

\* C18: no two accounts ever share an email or a username, and a register call
\* that meets a taken email or username, at either of its lookups or at the
\* insert, fails with a duplicate error, adds no account and stores no refresh
\* token.
C18_UniqueIdentity ==
    /\ [](\A a \in DOMAIN users, b \in DOMAIN users :
             a # b => users[a].email # users[b].email /\ users[a].username # users[b].username)
    /\ [][ \A p \in Procs :
              /\ \A e \in RegEmails, n \in RegNames :
                    ((\E id \in DOMAIN users : users[id].email = e)
                       /\ RegisterFind(p, e, n, "pw1")) =>
                        /\ pc'[p] = "idle"
                        /\ reply'.out = "User with this email already exists"
                        /\ users' = users /\ refreshTokens' = refreshTokens
              /\ ((\E id \in DOMAIN users : users[id].username = loc[p].name)
                     /\ RegisterUsername(p)) =>
                        /\ pc'[p] = "idle"
                        /\ reply'.out = "Username already taken"
                        /\ users' = users /\ refreshTokens' = refreshTokens
              /\ (Taken(loc[p].email, loc[p].name) /\ RegisterCreate(p)) =>
                        /\ pc'[p] = "idle"
                        /\ reply'.out = "Unique constraint failed"
                        /\ users' = users /\ refreshTokens' = refreshTokens
         ]_vars

\* C18 witness: two calls raced for the same identity; one created the
\* account, the other was turned away by the insert.
C18_Witness ==
    /\ reply.op = "register"
    /\ reply.out = "Unique constraint failed"
    /\ DOMAIN users # UserIds

\* C19: when a register or login call ends in a failure, the account it
\* created (if it got that far) is not in the store and neither is the refresh
\* token it generated.
C19_FailureLeavesNothing ==
    [][ \A p \in Procs :
           ( /\ reply' # reply
             /\ reply'.proc = p
             /\ reply'.op \in {"register", "login"}
             /\ reply'.out # "ok" ) =>
               /\ pc[p] = "reg_token" => loc[p].uid \notin DOMAIN users'
               /\ loc[p].nrt \notin DOMAIN refreshTokens'
      ]_vars

(* ------------------------ sessions of one account --------------------- *)

\* C21: once logout's revoke of refresh token R has gone through, R is revoked
\* for good, and every refreshToken(R) call that starts afterwards is answered
\* 'Invalid refresh token' at its first check and stores no token.
C21_LoggedOutTokenRejected ==
    /\ [](\A R \in logoutRevoked :
             R \in DOMAIN refreshTokens => refreshTokens[R].isRevoked)
    /\ [][ \A p \in Procs, R \in TokenIds :
              (R \in logoutRevoked /\ RefreshFind(p, R)) =>
                  /\ pc'[p] = "idle"
                  /\ reply' = [proc |-> p, op |-> "refresh",
                               out |-> "Invalid refresh token", rt |-> R]
                  /\ refreshTokens' = refreshTokens
                  /\ nextToken' = nextToken
         ]_vars

\* C21 witness: a token that no rotation ever revoked was revoked by logout,
\* and a refreshToken call with it was turned away.
C21_Witness ==
    /\ reply.op = "refresh"
    /\ reply.out = "Invalid refresh token"
    /\ reply.rt \in logoutRevoked
    /\ reply.rt \notin refreshRevoked

\* The refresh-token rows other than R are what they were.
OthersKept(R) ==
    \A x \in DOMAIN refreshTokens \ {R} :
        x \in DOMAIN refreshTokens' /\ refreshTokens'[x] = refreshTokens[x]

\* C24: no step of login changes or removes a stored refresh token, the token
\* a login stores is a new one and valid, and the writes of refreshToken and
\* of logout change no row but the one of the token they were called with: the
\* sessions of an account are independent.
C24_IndependentSessions ==
    [][ /\ \A p \in LoginProcs :
              /\ \A pw \in Passwords : LoginFind(p, "u1", pw, NoCode) => OthersKept(NoToken)
              /\ LoginLast(p) => OthersKept(NoToken)
              /\ LoginCreate(p) =>
                    /\ OthersKept(NoToken)
                    /\ loc[p].nrt \notin DOMAIN refreshTokens
                    /\ loc[p].nrt \in DOMAIN refreshTokens'
                    /\ refreshCheck(refreshTokens', loc[p].nrt, now) = "ok"
        /\ \A p \in Procs :
              (RefreshRevoke(p) \/ RefreshCreate(p) \/ LogoutRevoke(p)) =>
                  OthersKept(loc[p].rt)
      ]_vars

\* C24 witness: the account has two sessions opened by login (neither token is
\* the successor of another); one was logged out, and a refreshToken call with
\* the other went through afterwards.
C24_Witness ==
    \E A \in logoutRevoked, B \in TokenIds :
        /\ A # B
        /\ \A x \in TokenIds : A \notin rotated[x] /\ B \notin rotated[x]
        /\ reply = [proc |-> reply.proc, op |-> "refresh", out |-> "ok", rt |-> B]
        /\ refreshTokens[A].userId = "u1"
        /\ refreshTokens[B].userId = "u1"

\* C22: a refreshToken call whose token is not stored, is revoked or is past
\* its expiry fails at the token lookup, and one whose owning account is gone
\* or inactive fails at the account lookup; in both cases no refresh-token row
\* is changed or created and no token value is drawn.
C22_FailedRefreshWritesNothing ==
    [][ /\ \A p \in Procs, R \in TokenIds :
              ( /\ \/ R \notin DOMAIN refreshTokens
                   \/ refreshTokens[R].isRevoked
                   \/ refreshTokens[R].expiresAt < now
                /\ RefreshFind(p, R) ) =>
                  /\ pc'[p] = "idle"
                  /\ reply'.proc = p /\ reply'.op = "refresh" /\ reply'.rt = R
                  /\ reply'.out \in {"Invalid refresh token", "Refresh token expired"}
                  /\ refreshTokens' = refreshTokens
                  /\ nextToken' = nextToken
        /\ \A p \in Procs :
              ( /\ pc[p] = "refresh_user"
                /\ \/ loc[p].uid \notin DOMAIN users
                   \/ ~users[loc[p].uid].isActive
                /\ RefreshUser(p) ) =>
                  /\ pc'[p] = "idle"
                  /\ reply' = [proc |-> p, op |-> "refresh",
                               out |-> "User not found or inactive", rt |-> loc[p].rt]
                  /\ refreshTokens' = refreshTokens
                  /\ nextToken' = nextToken
      ]_vars

\* C22 witness: a stored, unrevoked token was presented after its expiry and
\* turned away; its row is as it was.
C22_Witness ==
    /\ reply.op = "refresh"
    /\ reply.out = "Refresh token expired"
    /\ reply.rt \in DOMAIN refreshTokens
    /\ ~refreshTokens[reply.rt].isRevoked
    /\ refreshTokens[reply.rt].expiresAt < now

(* ------------------------- credential changes ------------------------- *)

\* No refresh-token row and no blacklist row is touched, and every refresh
\* token that passes refreshToken's checks before the step passes them after.
SessionsKept ==
    /\ refreshTokens' = refreshTokens
    /\ blacklist' = blacklist
    /\ \A R \in DOMAIN refreshTokens :
          ( /\ ~refreshTokens[R].isRevoked
            /\ ~(refreshTokens[R].expiresAt < now)
            /\ refreshTokens[R].userId \in DOMAIN users
            /\ users[refreshTokens[R].userId].isActive ) =>
              /\ R \in DOMAIN refreshTokens'
              /\ ~refreshTokens'[R].isRevoked
              /\ ~(refreshTokens'[R].expiresAt < now')
              /\ refreshTokens[R].userId \in DOMAIN users'
              /\ users'[refreshTokens[R].userId].isActive

\* C25: no step of changePassword, setupTwoFactor, enableTwoFactor or
\* disableTwoFactor changes a refresh-token row or a blacklist row, and a
\* refresh token that refreshToken accepts before the step is accepted after it.
C25_CredentialChangeKeepsSessions ==
    [][ \A p \in CredentialProcs :
           /\ pc[p] = "idle" =>
                 /\ \A u \in {"u1", NoIdentity}, b \in ChangeBodies :
                       ChangePasswordFind(p, u, b.cur, b.new, b.confirm) => SessionsKept
                 /\ \A pw \in Passwords :
                       /\ \A sec \in Secrets :
                             SetupTwoFactor(p, "u1", pw, sec) => SessionsKept
                       /\ \A c \in Codes \cup {NoCode} :
                             EnableFind(p, "u1", pw, c) => SessionsKept
                       /\ DisableFind(p, "u1", pw) => SessionsKept
           /\ ( /\ pc[p] \in {"chpw_update", "enable_update", "disable_update"}
                /\ pc'[p] # pc[p] ) => SessionsKept
      ]_vars

\* C25 witness: the password of u1 has just been changed, two-factor is on,
\* and the session that was there before all of it is still one refreshToken
\* accepts.
C25_Witness ==
    /\ reply.op = "changePassword"
    /\ reply.out = "200 Password changed successfully"
    /\ users["u1"].password = hashPassword("pw2")
    /\ users["u1"].twoFactorEnabled
    /\ refreshCheck(refreshTokens, 1, now) = "ok"
    /\ accountLive(users, "u1")

\* The call of p ended in a failure and wrote nothing to the account.
RefusedUnchanged(p, op) ==
    /\ pc'[p] = "idle"
    /\ reply'.proc = p
    /\ reply'.op = op
    /\ reply'.out \notin {"ok", "200 Password changed successfully"}
    /\ users' = users
    /\ setupSecret' = setupSecret

\* C26: changePassword, setupTwoFactor, enableTwoFactor and disableTwoFactor,
\* called with a current password that is not the account's, fail, and the
\* account's password hash, two-factor flag, secret and backup codes are what
\* they were.
C26_WrongPasswordChangesNothing ==
    [][ \A p \in CredentialProcs, pw \in Passwords :
           (pc[p] = "idle" /\ users["u1"].password # hashPassword(pw)) =>
              /\ \A b \in ChangeBodies :
                    (b.cur = pw /\ ChangePasswordFind(p, "u1", pw, b.new, b.confirm))
                        => RefusedUnchanged(p, "changePassword")
              /\ \A sec \in Secrets :
                    SetupTwoFactor(p, "u1", pw, sec)
                        => RefusedUnchanged(p, "setup") /\ reply'.out = "Invalid password"
              /\ \A c \in Codes \cup {NoCode} :
                    EnableFind(p, "u1", pw, c)
                        => RefusedUnchanged(p, "enable") /\ reply'.out = "Invalid password"
              /\ DisableFind(p, "u1", pw)
                    => RefusedUnchanged(p, "disable") /\ reply'.out = "Invalid password"
      ]_vars

\* C26 witness: after the password was changed to pw2, changePassword with the
\* old password was refused.
C26_Witness ==
    /\ reply.op = "changePassword"
    /\ reply.out = "400 Current password is incorrect"
    /\ users["u1"].password = hashPassword("pw2")

(* --------------------------- blacklist entries ------------------------ *)

\* C23: every blacklist entry created by logout is stored under the access
\* token itself and records the token's subject as its owning account and the
\* token's own exp claim as its expiry.
C23_EntryRecordsOwner ==
    \A T \in DOMAIN blacklist :
        /\ blacklist[T].userId = T.sub
        /\ blacklist[T].expiresAt = T.exp

(* ------------------------------ authorization ------------------------ *)

\* The account is there and its role in the store has a permission of exactly
\* that name.
Permitted(uid, perm) ==
    /\ uid \in DOMAIN users
    /\ users[uid].role \in RoleNames
    /\ perm \in rolePermissions[users[uid].role]

\* The account is there and the name of its role in the store is one of roles.
InRoles(uid, roles) ==
    /\ uid \in DOMAIN users
    /\ users[uid].role # NoRole
    /\ users[uid].role \in roles

\* The answers of the catch blocks.
GateFailures == {"500 Authorization check failed", "500 Role authorization check failed"}

\* C27: authorize(permission) calls next() only for an identity whose role in
\* the store has a permission of exactly that name, and, whenever its account
\* lookup answers, it does call next() for such an identity; in every other
\* case it ends the request.
C27_AuthorizeExactName ==
    [][ \A p \in GateProcs :
           AuthorizeFind(p) =>
              LET perm == CHOOSE x \in loc[p].arg : TRUE
              IN /\ pc'[p] = "idle"
                 /\ reply'.op = "authorize"
                 /\ reply'.out = "next" => Permitted(loc[p].uid, perm)
                 /\ (Permitted(loc[p].uid, perm) /\ reply'.out \notin GateFailures)
                        => reply'.out = "next"
      ]_vars

\* C27 witness: the role has "cases:*" but not "cases:write", and a request
\* that needs "cases:write" was refused.
C27_Witness ==
    /\ reply.op = "authorize"
    /\ reply.out = "403 Insufficient permissions"
    /\ gateSeen.arg = {"cases:write"}
    /\ "u1" \in DOMAIN users
    /\ users["u1"].role \in RoleNames
    /\ "cases:*" \in rolePermissions[users["u1"].role]
    /\ "cases:write" \notin rolePermissions[users["u1"].role]

\* What a role check answers once the account lookup has answered.
RoleAnswer(uid, roles) ==
    IF uid \notin DOMAIN users THEN "401 User not found"
    ELSE IF InRoles(uid, roles) THEN "next"
    ELSE "403 Insufficient role permissions"

\* C28: requireAnyRole(roles) calls next() only for an identity whose role
\* name is in roles (so never for one without a role, and for nobody when
\* roles is empty) and does so whenever its lookup answers; requireRole(r)
\* answers as requireAnyRole([r]) does.
C28_RoleMembership ==
    [][ \A p \in GateProcs :
           /\ RequireAnyRoleFind(p) =>
                 /\ reply'.op = "requireAnyRole"
                 /\ reply'.out \in {RoleAnswer(loc[p].uid, loc[p].arg)} \cup GateFailures
                 /\ reply'.out = "next" => InRoles(loc[p].uid, loc[p].arg)
           /\ RequireRoleFind(p) =>
                 /\ reply'.op = "requireRole"
                 /\ Cardinality(loc[p].arg) = 1
                 /\ reply'.out \in {RoleAnswer(loc[p].uid, loc[p].arg)} \cup GateFailures
                 /\ reply'.out = "next" => InRoles(loc[p].uid, loc[p].arg)
      ]_vars

\* C28 witness: the account has no role (its role rows were deleted and the
\* new one is not stored yet) and requireRole refused it.
C28_Witness ==
    /\ reply.op = "requireRole"
    /\ reply.out = "403 Insufficient role permissions"
    /\ gateSeen.uid = "u1"
    /\ "u1" \in DOMAIN users
    /\ users["u1"].role = NoRole

\* No table is written.
StoreKept ==
    /\ users' = users
    /\ rolePermissions' = rolePermissions
    /\ refreshTokens' = refreshTokens
    /\ blacklist' = blacklist

\* What the three checks answer to a request without an identity, and that
\* they write nothing on the way to the account lookup.
GateStartsRight ==
    \A p \in GateProcs, i \in Identities :
        /\ \A perm \in PermissionNames :
              AuthorizeStart(p, i.id, i.roleId, perm) =>
                 /\ StoreKept
                 /\ (i.id = NoIdentity) <=> (pc'[p] = "idle")
                 /\ pc'[p] = "idle" => reply'.out = "401 Authentication required"
        /\ \A r \in AskedRoles :
              RequireRoleStart(p, i.id, i.roleId, r) =>
                 /\ StoreKept
                 /\ (i.id = NoIdentity) <=> (pc'[p] = "idle")
                 /\ pc'[p] = "idle" => reply'.out = "401 Authentication required"
        /\ \A roles \in AskedRoleSets :
              RequireAnyRoleStart(p, i.id, i.roleId, roles) =>
                 /\ StoreKept
                 /\ (i.id = NoIdentity) <=> (pc'[p] = "idle")
                 /\ pc'[p] = "idle" => reply'.out = "401 Authentication required"

\* The answer of authorize, requireRole or requireAnyRole that the state at
\* the account lookup calls for.
GateAnswerFor(p) ==
    IF pc[p] = "authorize_find"
    THEN IF loc[p].uid \notin DOMAIN users THEN "401 User not found"
         ELSE IF Permitted(loc[p].uid, CHOOSE x \in loc[p].arg : TRUE) THEN "next"
         ELSE "403 Insufficient permissions"
    ELSE RoleAnswer(loc[p].uid, loc[p].arg)

\* C29 as claimed: the three checks write nothing and answer 403 exactly when
\* the account exists and lacks the permission or role, 401 exactly when there
\* is no identity or no account, and call next() exactly when the check passes.
C29_AnswersExactly ==
    [][ /\ GateStartsRight
        /\ \A p \in GateProcs :
              (AuthorizeFind(p) \/ RequireRoleFind(p) \/ RequireAnyRoleFind(p)) =>
                  /\ StoreKept
                  /\ reply'.out = GateAnswerFor(p)
      ]_vars

\* C29 as amended: the three checks write nothing; when the account lookup
\* answers they answer 403 exactly when the account exists and lacks the
\* permission or role, 401 exactly when there is no identity or no account,
\* and call next() exactly when the check passes; when the lookup fails they
\* answer 500 and do not call next().
C29_AnswersExactlyOrFails ==
    [][ /\ GateStartsRight
        /\ \A p \in GateProcs :
              (AuthorizeFind(p) \/ RequireRoleFind(p) \/ RequireAnyRoleFind(p)) =>
                  /\ StoreKept
                  /\ pc'[p] = "idle"
                  /\ reply'.out \in {GateAnswerFor(p)} \cup GateFailures
      ]_vars

\* C29 witness: the account lookup of authorize failed for an identity that
\* has the permission, and the answer was 500.
C29_Witness ==
    /\ reply.op = "authorize"
    /\ reply.out = "500 Authorization check failed"
    /\ \E perm \in gateSeen.arg : Permitted(gateSeen.uid, perm)

\* C30: when the roleId the request carries is not the account's role in the
\* store, the three checks answer by the role and the permissions in the store
\* at the moment of the account lookup.
C30_DecidedByStore ==
    [][ \A p \in GateProcs :
           ( /\ loc[p].uid \in DOMAIN users
             /\ loc[p].role # users[loc[p].uid].role
             /\ (AuthorizeFind(p) \/ RequireRoleFind(p) \/ RequireAnyRoleFind(p)) ) =>
               /\ gateSeen'.role = loc[p].role
               /\ reply'.out \notin GateFailures => reply'.out = GateAnswerFor(p)
      ]_vars

\* C30 witness: a request that carries role "User" was let through by
\* authorize on a permission that only "Admin", the account's role by now, has.
C30_Witness ==
    /\ reply.op = "authorize"
    /\ reply.out = "next"
    /\ gateSeen.role = "User"
    /\ "u1" \in DOMAIN users
    /\ users["u1"].role = "Admin"
    /\ gateSeen.arg \subseteq rolePermissions["Admin"]
    /\ gateSeen.arg \cap rolePermissions["User"] = {}

(* --------------------------- physical cleanup ------------------------- *)

\* C36: cleanup is invisible to refreshToken: RefreshTokenModel.deleteExpiredTokens
\* never takes away the row of a refreshToken call that has passed its checks
\* and has yet to revoke it, so never turns a call that would have succeeded
\* into a failure.  (Refuted: the row whose expiry passed while the call was
\* between its awaits is deleted, and revokeToken then throws.)
C36_CleanupInvisible ==
    [][CleanupRefreshTokens =>
         \A p \in Procs :
            pc[p] \in {"refresh_user", "refresh_revoke"}
              /\ hasRefreshToken(refreshTokens, loc[p].rt)
            => hasRefreshToken(refreshTokens', loc[p].rt)]_vars

(* --------------------------- token ownership -------------------------- *)

\* C33: a logout authenticated as account A revokes the refresh token it was
\* given only if that token belongs to A, the account of the presented access
\* token.  (Refuted: logout revokes whatever token the body names.)
C33_LogoutRevokesOwnOnly ==
    [][\A p \in Procs :
          LogoutRevoke(p) /\ refreshTokens' # refreshTokens
          => refreshTokens[loc[p].rt].userId = loc[p].at.sub]_vars

(* -------------------------------- JwtUtils ---------------------------- *)

\* C31: whenever verifyAccessToken was given generateAccessToken(C) as issued,
\* it returned C's sub, email, username and roleId with type 'access' if less
\* than the access lifetime had elapsed since issuance, and threw 'Invalid
\* access token' if the lifetime had elapsed.
C31_RoundTrip ==
    \A C \in JwtClaims, i \in Times :
       verified.token = JwtGenerateAccessToken(C, i)
       => IF verified.at - i < AccessTTL
          THEN /\ verified.ok
               /\ [f \in DOMAIN C |-> verified.payload[f]] = C
               /\ verified.payload.type = "access"
          ELSE /\ ~verified.ok
               /\ verified.error = "Invalid access token"

\* C31 witness: a token issued at 0 came back with its claims one instant
\* later.
C31_Witness ==
    /\ \E C \in JwtClaims : verified.token = JwtGenerateAccessToken(C, 0)
    /\ verified.at = 1
    /\ verified.ok
    /\ verified.payload.sub = verified.token.payload.sub

\* C31 witness of the other half: the same token was refused at the instant
\* its lifetime had elapsed.
C31_WitnessExpired ==
    /\ \E C \in JwtClaims : verified.token = JwtGenerateAccessToken(C, 0)
    /\ verified.at = AccessTTL
    /\ ~verified.ok

(* ------------------------------ PasswordUtils ------------------------- *)

\* The messages validatePassword has for a password that breaks the claim's
\* rules: one for its length, one per missing kind of character.
C32_Expected(pw) ==
    (IF pw.len < 8 THEN {"Password must be at least 8 characters long"} ELSE {})
    \cup (IF pw.len > 128 THEN {"Password must be less than 128 characters long"} ELSE {})
    \cup (IF "lower" \in pw.has THEN {}
          ELSE {"Password must contain at least one lowercase letter"})
    \cup (IF "upper" \in pw.has THEN {}
          ELSE {"Password must contain at least one uppercase letter"})
    \cup (IF "digit" \in pw.has THEN {}
          ELSE {"Password must contain at least one number"})
    \cup (IF "special" \in pw.has THEN {}
          ELSE {"Password must contain at least one special character"})

\* C32: validatePassword(p).isValid is true exactly when p has between 8 and
\* 128 characters and a lowercase letter, an uppercase letter, a digit and a
\* special character; errors holds one message per violated rule, no more and
\* none twice.
C32_ValidExactly ==
    validation # NoValidation =>
       LET pw == validation.password
       IN /\ validation.isValid
             <=> /\ pw.len >= 8
                 /\ pw.len <= 128
                 /\ {"lower", "upper", "digit", "special"} \subseteq pw.has
          /\ {validation.errors[j] : j \in DOMAIN validation.errors} = C32_Expected(pw)
          /\ Len(validation.errors) = Cardinality(C32_Expected(pw))

\* C32 witness: a password of eight characters with all four kinds was found
\* valid.
C32_Witness ==
    /\ validation.password.len = 8
    /\ validation.password.has = {"lower", "upper", "digit", "special"}
    /\ validation.isValid

\* C32 witness of a refusal: a one-character password got four messages.
C32_WitnessRefused ==
    /\ validation.password = [len |-> 1, has |-> {"lower"}]
    /\ Len(validation.errors) = 4

(* ---------------------- AuthMiddleware.optionalAuth ------------------- *)

C35_NextOnceNeverThrows ==
    request # NoRequest => request.nexts = 1 /\ request.thrown = "none"

(* ---------------------- BaseService.executeWithRetry ------------------ *)

\* C37: a call that returned the failure of an operation that failed with a
\* retryable error every time has invoked it exactly maxAttempts times, and
\* reports that number as metadata.attempts.  (Refuted: attempts is incremented
\* in the catch block and again by the loop, so the operation is invoked twice
\* and attempts says 3.)
C37_InvokesMaxAttempts ==
    response.proc # "none" /\ ~response.success /\ isRetryableError(response.code)
    => /\ response.invoked = MaxAttempts
       /\ response.attempts = response.invoked

\* C38: the circuit opens only after failureThreshold consecutive failures,
\* and a success while it is CLOSED resets the failure count.  (Refuted: only a
\* success in HALF_OPEN resets it.)
C38_OpensOnConsecutive ==
    [][/\ circuitState = "CLOSED" /\ circuitState' = "OPEN"
          => streak' >= FailureThreshold
       /\ \A p \in Procs :
             circuitState = "CLOSED" /\ ExecSucceed(p) => failureCount' = 0]_vars

\* C39 as stated: the call that moved the circuit to HALF_OPEN and invoked the
\* operation closes the circuit when that invocation succeeds.  (Refuted: the
\* failure of a concurrent call can have reopened the circuit by then.)
C39_TrialSuccessCloses ==
    [][\A p \in Procs :
          calls[p].trial /\ ExecSucceed(p)
          => circuitState' = "CLOSED" /\ failureCount' = 0]_vars

\* C39: a pass of the loop that finds the circuit OPEN returns
\* CIRCUIT_BREAKER_OPEN without invoking the operation while less than
\* recoveryTimeout has elapsed since the last failure, and otherwise moves the
\* circuit to HALF_OPEN and invokes it; a success that finds the circuit
\* HALF_OPEN closes it with failureCount = 0, a failure that finds it HALF_OPEN
\* opens it.
C39_BreakerCycle ==
    [][\A p \in Procs :
          /\ circuitState = "OPEN" /\ (ExecStart(p) \/ ExecWake(p))
             => IF now - lastFailureTime < RecoveryTimeout
                THEN /\ response'.proc = p
                     /\ response'.code = "CIRCUIT_BREAKER_OPEN"
                     /\ ~response'.success
                     /\ response'.invoked = calls[p].invoked
                     /\ calls'[p].pc = "idle"
                     /\ circuitState' = "OPEN"
                ELSE /\ circuitState' = "HALF_OPEN"
                     /\ calls'[p].pc = "operation"
                     /\ calls'[p].invoked = calls[p].invoked + 1
          /\ circuitState = "HALF_OPEN" /\ ExecSucceed(p)
             => circuitState' = "CLOSED" /\ failureCount' = 0
          /\ circuitState = "HALF_OPEN" /\ (\E code \in ErrorCodes : ExecFail(p, code))
             => circuitState' = "OPEN" /\ lastFailureTime' = now]_vars

\* C39 witness: the circuit was opened after instant 0, the recovery timeout
\* passed, and a successful trial closed it and reset the count.
C39_Witness ==
    /\ circuitState = "CLOSED"
    /\ failureCount = 0
    /\ lastFailureTime > 0
    /\ response.success

(* ------------------------------ ServiceManager ------------------------ *)

\* C40: right after ServiceManager.disableService(name) the service is
\* disabled (isServiceEnabled is false) and no instance of it is registered.
\* (Refuted: the reload inside disableService restores the environment's
\* setting.)
C40_DisabledAfterDisable ==
    [][\A n \in ManagedServices :
          DisableService(n)
          => ~isServiceEnabled(configs', n) /\ n \notin services']_vars

====
